---------------------------- MODULE Spec2Model ----------------------------
(***************************************************************************)
(* A model of rsformat's template formatter: buildString and formatParam   *)
(* of src/src/format.ts (lines 194-498) and the rs / rs.raw / rs.ref tags  *)
(* of src/unnamed/part_002.                                                *)
(*                                                                         *)
(* Text is a sequence of one-character strings, indexed from 0 as in       *)
(* JavaScript through At.  JavaScript values are records tagged by t.      *)
(* A number is a sign, an integer part and the decimal digits after the    *)
(* point (no trailing zero), or NaN; the model keeps to numbers whose      *)
(* decimal string has no exponent.                                         *)
(***************************************************************************)
EXTENDS Integers, Sequences, FiniteSets, TLC

\* ------------------------------------------------------------------ bounds
\* back-reference indices range over -1 .. MaxRef
MaxRef == 3
\* the inline width written in the specifiers of the formatting templates
WidthDigit == 7
\* the largest integer handed over as a deferred width or precision
MaxDeferred == 5
\* the largest magnitude of the integers rendered as ordinals
MaxOrdinal == 113

\* ------------------------------------------------------------------- text
Digits == <<"0", "1", "2", "3", "4", "5", "6", "7", "8", "9",
            "a", "b", "c", "d", "e", "f">>
Lower == <<"a", "b", "c", "d", "e", "f", "g", "h", "i", "j", "k", "l", "m",
           "n", "o", "p", "q", "r", "s", "t", "u", "v", "w", "x", "y", "z">>
Upper == <<"A", "B", "C", "D", "E", "F", "G", "H", "I", "J", "K", "L", "M",
           "N", "O", "P", "Q", "R", "S", "T", "U", "V", "W", "X", "Y", "Z">>

\* string[k]: the character at 0-based index k, undefined past the end
At(s, k) == IF k >= 0 /\ k < Len(s) THEN s[k + 1] ELSE "undefined"

\* string.substring(a, b) for 0 <= a
Substring(s, a, b) ==
    LET lo == IF a > Len(s) THEN Len(s) ELSE a
        hi == IF b > Len(s) THEN Len(s) ELSE b
    IN  IF hi <= lo THEN <<>> ELSE SubSeq(s, lo + 1, hi)

\* string.substring(a)
SubstringFrom(s, a) == Substring(s, a, Len(s))

\* c.repeat(n) for an integer n >= 0
Repeat(c, n) == [k \in 1..n |-> c]

is_digit(c) == c \in {"0", "1", "2", "3", "4", "5", "6", "7", "8", "9"}

DigitValue(c) == CHOOSE d \in 0..9 : Digits[d + 1] = c

UpperChar(c) ==
    IF \E k \in 1..26 : Lower[k] = c
    THEN Upper[CHOOSE k \in 1..26 : Lower[k] = c]
    ELSE c

LowerChar(c) ==
    IF \E k \in 1..26 : Upper[k] = c
    THEN Lower[CHOOSE k \in 1..26 : Upper[k] = c]
    ELSE c

toUpperCase(s) == [k \in 1..Len(s) |-> UpperChar(s[k])]
toLowerCase(s) == [k \in 1..Len(s) |-> LowerChar(s[k])]

RECURSIVE Pow(_, _)
Pow(b, e) == IF e = 0 THEN 1 ELSE b * Pow(b, e - 1)

\* the digits of a natural number in a radix, most significant first
RECURSIVE IntRadix(_, _)
IntRadix(n, r) ==
    IF n < r THEN <<Digits[n + 1]>>
    ELSE IntRadix(n \div r, r) \o <<Digits[(n % r) + 1]>>

\* Number(text) for a run of decimal digits
RECURSIVE ParseNat(_)
ParseNat(s) ==
    IF s = <<>> THEN 0
    ELSE 10 * ParseNat(SubSeq(s, 1, Len(s) - 1)) + DigitValue(s[Len(s)])

\* the digits after the point of num/den in a radix (num/den a finite
\* fraction of that radix, which every dyadic fraction is for 2, 8 and 16)
RECURSIVE FracRadix(_, _, _)
FracRadix(num, den, r) ==
    IF num = 0 THEN <<>>
    ELSE <<Digits[((num * r) \div den) + 1]>> \o FracRadix((num * r) % den, den, r)

RECURSIVE StripTrailingZeros(_)
StripTrailingZeros(s) ==
    IF s # <<>> /\ s[Len(s)] = "0"
    THEN StripTrailingZeros(SubSeq(s, 1, Len(s) - 1))
    ELSE s

RECURSIVE LeadingZeros(_)
LeadingZeros(s) ==
    IF s # <<>> /\ s[1] = "0" THEN 1 + LeadingZeros(Tail(s)) ELSE 0

\* the 0-based index of the first "." of s, or -1
RECURSIVE IndexOfDot(_, _)
IndexOfDot(s, k) ==
    IF k >= Len(s) THEN -1
    ELSE IF s[k + 1] = "." THEN k ELSE IndexOfDot(s, k + 1)

\* ----------------------------------------------------------------- values
Num(neg, ip, fp) == [t |-> "number", nan |-> FALSE, neg |-> neg, ip |-> ip, fp |-> fp]
IntNum(n) == Num(n < 0, IF n < 0 THEN -n ELSE n, <<>>)
NaN == [t |-> "number", nan |-> TRUE, neg |-> FALSE, ip |-> 0, fp |-> <<>>]
Big(n) == [t |-> "bigint", neg |-> n < 0, ip |-> IF n < 0 THEN -n ELSE n]
Str(s) == [t |-> "string", s |-> s]
Bool(b) == [t |-> "boolean", b |-> b]
Null == [t |-> "null"]
Undefined == [t |-> "undefined"]
\* the object literal {a: 1} and the array literal [1, 2]
ObjA1 == [t |-> "object"]
Arr12 == [t |-> "array"]
\* rs.ref(n): { __rs_param_ref: n }
Ref(n) == [t |-> "ref", n |-> n]

IsInteger(v) == v.t = "number" /\ ~v.nan /\ v.fp = <<>>
IntOf(v) == IF v.neg THEN -v.ip ELSE v.ip

\* typeof v
TypeOf(v) ==
    CASE v.t \in {"number", "bigint", "string", "boolean", "undefined"} -> v.t
      [] OTHER -> "object"

\* n < w, n an integer and w a number value (false for NaN)
IntLessNum(n, w) ==
    IF w.nan THEN FALSE
    ELSE IF w.fp = <<>> THEN n < IntOf(w)
    ELSE IF w.neg THEN n <= -w.ip - 1
    ELSE n <= w.ip

\* the integer part of w toward zero (ToIntegerOrInfinity; 0 for NaN)
Trunc(w) == IF w.nan THEN 0 ELSE IF w.neg THEN -w.ip ELSE w.ip


\* ------------------------------------------------------------ conversions
\* Number.prototype.toString(r)
NumberToString(v, r) ==
    IF v.nan THEN <<"N", "a", "N">>
    ELSE (IF v.neg THEN <<"-">> ELSE <<>>)
         \o IntRadix(v.ip, r)
         \o (IF v.fp = <<>> THEN <<>>
             ELSE <<".">> \o (IF r = 10 THEN v.fp
                              ELSE FracRadix(ParseNat(v.fp), Pow(10, Len(v.fp)), r)))

\* BigInt.prototype.toString(r)
BigIntToString(v, r) == (IF v.neg THEN <<"-">> ELSE <<>>) \o IntRadix(v.ip, r)

\* param.toString(r) raises a TypeError on undefined (and null)
CanToString(v) == v.t \notin {"undefined", "null"}

\* param.toString(r): the radix is read by numbers and bigints only
ToStringR(v, r) ==
    CASE v.t = "number" -> NumberToString(v, r)
      [] v.t = "bigint" -> BigIntToString(v, r)
      [] v.t = "string" -> v.s
      [] v.t = "boolean" -> IF v.b THEN <<"t", "r", "u", "e">>
                                   ELSE <<"f", "a", "l", "s", "e">>
      [] v.t = "array" -> <<"1", ",", "2">>
      [] OTHER -> <<"[", "o", "b", "j", "e", "c", "t", " ",
                    "O", "b", "j", "e", "c", "t", "]">>

\* param.toLocaleString('en-US', {notation: 'scientific', maximumFractionDigits: 20})
\* of a number or bigint: mantissa, "E", exponent
SciString(v) ==
    IF v.t = "number" /\ v.nan THEN <<"N", "a", "N">>
    ELSE LET fp == IF v.t = "number" THEN v.fp ELSE <<>>
             whole == IntRadix(v.ip, 10)
             z == LeadingZeros(fp)
             sig == IF v.ip > 0 THEN StripTrailingZeros(whole \o fp)
                    ELSE IF fp = <<>> THEN <<"0">>
                    ELSE SubSeq(fp, z + 1, Len(fp))
             exp == IF v.ip > 0 THEN Len(whole) - 1
                    ELSE IF fp = <<>> THEN 0
                    ELSE -(z + 1)
         IN  (IF v.neg THEN <<"-">> ELSE <<>>)
             \o <<sig[1]>>
             \o (IF Len(sig) > 1 THEN <<".">> \o Tail(sig) ELSE <<>>)
             \o <<"E">>
             \o (IF exp < 0 THEN <<"-">> \o IntRadix(-exp, 10) ELSE IntRadix(exp, 10))

\* Math.round(v).toString(): halves go up; -0 prints as 0
RoundString(v) ==
    IF v.nan THEN <<"N", "a", "N">>
    ELSE LET d1 == IF v.fp = <<>> THEN 0 ELSE DigitValue(v.fp[1])
             up == IF v.neg THEN d1 > 5 \/ (d1 = 5 /\ Len(v.fp) > 1)
                   ELSE d1 >= 5
             n == IF up THEN v.ip + 1 ELSE v.ip
         IN  (IF v.neg /\ n > 0 THEN <<"-">> ELSE <<>>) \o IntRadix(n, 10)

\* the suffix chosen from the last character alone
OrdinalSuffix_LastDigit(s) ==
    CASE At(s, Len(s) - 1) = "1" -> <<"s", "t">>
      [] At(s, Len(s) - 1) = "2" -> <<"n", "d">>
      [] At(s, Len(s) - 1) = "3" -> <<"r", "d">>
      [] OTHER -> <<"t", "h">>

\* the ordinal suffix chosen from the last two characters
OrdinalSuffix(s) ==
    LET last_2_digits == SubstringFrom(s, IF Len(s) >= 2 THEN Len(s) - 2 ELSE 0)
    IN  IF last_2_digits \in {<<"1", "1">>, <<"1", "2">>, <<"1", "3">>}
        THEN <<"t", "h">>
        ELSE CASE At(last_2_digits, Len(last_2_digits) - 1) = "1" -> <<"s", "t">>
               [] At(last_2_digits, Len(last_2_digits) - 1) = "2" -> <<"n", "d">>
               [] At(last_2_digits, Len(last_2_digits) - 1) = "3" -> <<"r", "d">>
               [] OTHER -> <<"t", "h">>

\* an ANSI styling span of util.inspect: ESC[<open>m text ESC[<close>m
Styled(colors, open, close, s) ==
    IF colors THEN <<"ESC", "[">> \o open \o <<"m">> \o s \o <<"ESC", "[">> \o close \o <<"m">>
    ELSE s

\* util.inspect(v, {depth: Infinity, colors, compact})
RECURSIVE inspect(_, _, _)
inspect(v, colors, compact) ==
    CASE v.t = "number" -> Styled(colors, <<"3", "3">>, <<"3", "9">>, NumberToString(v, 10))
      [] v.t = "bigint" ->
            Styled(colors, <<"3", "3">>, <<"3", "9">>, BigIntToString(v, 10) \o <<"n">>)
      [] v.t = "string" -> Styled(colors, <<"3", "2">>, <<"3", "9">>, <<"'">> \o v.s \o <<"'">>)
      [] v.t = "boolean" -> Styled(colors, <<"3", "3">>, <<"3", "9">>, ToStringR(v, 10))
      [] v.t = "undefined" ->
            Styled(colors, <<"9", "0">>, <<"3", "9">>,
                   <<"u", "n", "d", "e", "f", "i", "n", "e", "d">>)
      [] v.t = "null" -> Styled(colors, <<"1">>, <<"2", "2">>, <<"n", "u", "l", "l">>)
      [] v.t = "array" ->
            IF compact
            THEN <<"[", " ">> \o Styled(colors, <<"3", "3">>, <<"3", "9">>, <<"1">>)
                 \o <<",", " ">> \o Styled(colors, <<"3", "3">>, <<"3", "9">>, <<"2">>)
                 \o <<" ", "]">>
            ELSE <<"[", "\n", " ", " ">>
                 \o Styled(colors, <<"3", "3">>, <<"3", "9">>, <<"1">>)
                 \o <<",", "\n", " ", " ">>
                 \o Styled(colors, <<"3", "3">>, <<"3", "9">>, <<"2">>)
                 \o <<"\n", "]">>
      [] v.t = "ref" ->
            <<"{", " ", "_", "_", "r", "s", "_", "p", "a", "r", "a", "m", "_",
              "r", "e", "f", ":", " ">>
            \o inspect(v.n, colors, compact) \o <<" ", "}">>
      [] OTHER ->
            IF compact
            THEN <<"{", " ", "a", ":", " ">>
                 \o Styled(colors, <<"3", "3">>, <<"3", "9">>, <<"1">>) \o <<" ", "}">>
            ELSE <<"{", "\n", " ", " ", "a", ":", " ">>
                 \o Styled(colors, <<"3", "3">>, <<"3", "9">>, <<"1">>) \o <<"\n", "}">>

\* ------------------------------------------------------------ formatParam
\* an error raised by the render: the library's own carry the parameter and
\* the character they are reported at (-1 where the message has none)
Err(kind, p, c) == [kind |-> kind, param |-> p, char |-> c]
Thrown(kind, p, c) == [ok |-> FALSE, err |-> Err(kind, p, c)]
Returned(text) == [ok |-> TRUE, text |-> text]

\* the specifier a slot starts from
DefaultFormat ==
    [fill |-> " ", align |-> ">", force_sign |-> "", pretty |-> FALSE,
     pad_zeroes |-> FALSE, width |-> IntNum(0), precision |-> IntNum(-1), type |-> ""]

IsNumeric(param_type) == param_type \in {"number", "bigint"}

RadixOf(type) ==
    CASE type = "o" -> 8
      [] type \in {"x", "X"} -> 16
      [] type = "b" -> 2
      [] OTHER -> 10

\* the switch on format.type: the converted text, or the TypeError of a
\* call on undefined or of the misspelt toLowercase
ConvertType(param, format, debugColors) ==
    LET param_type == TypeOf(param)
        plain(text) == [ok |-> TRUE, text |-> text, true_length |-> Len(text),
                        param_type |-> param_type, format |-> format]
        typeError == Thrown("TypeError", -1, -1)
    IN  CASE format.type \in {"o", "x", "b"} ->
                IF CanToString(param) THEN plain(ToStringR(param, RadixOf(format.type)))
                ELSE typeError
          [] format.type = "X" ->
                IF CanToString(param)
                THEN plain(toUpperCase(ToStringR(param, RadixOf(format.type))))
                ELSE typeError
          [] format.type \in {"e", "E"} ->
                IF ~IsNumeric(param_type)
                THEN IF CanToString(param) THEN plain(ToStringR(param, 10)) ELSE typeError
                ELSE IF format.type = "e" THEN typeError
                ELSE plain(SciString(param))
          [] format.type \in {"n", "N"} ->
                IF ~IsNumeric(param_type)
                THEN IF CanToString(param) THEN plain(ToStringR(param, 10)) ELSE typeError
                ELSE LET rounded == IF param_type = "number" THEN RoundString(param)
                                    ELSE BigIntToString(param, 10)
                         suffixed == rounded \o OrdinalSuffix(rounded)
                         text == IF format.type = "N" THEN toUpperCase(suffixed)
                                 ELSE suffixed
                     IN  [ok |-> TRUE, text |-> text, true_length |-> Len(text),
                          param_type |-> param_type,
                          format |-> [format EXCEPT !.pad_zeroes = FALSE,
                                                    !.precision = IntNum(-1)]]
          [] format.type = "?" ->
                [ok |-> TRUE, text |-> inspect(param, debugColors, ~format.pretty),
                 true_length |-> Len(inspect(param, FALSE, ~format.pretty)),
                 param_type |-> "string", format |-> format]
          [] OTHER ->
                IF CanToString(param) THEN plain(ToStringR(param, 10)) ELSE typeError

\* precision that cuts the fraction but does not fill it up with zeros
ShapePrecision_NoFill(text, precision) ==
    LET dot == IndexOfDot(text, 0)
        pre == IF dot = -1 THEN text ELSE Substring(text, 0, dot)
        rest == IF dot = -1 THEN <<>> ELSE SubstringFrom(text, dot + 1)
        n == Trunc(precision)
    IN  IF precision.nan \/ (precision.ip = 0 /\ precision.fp = <<>>)
        THEN Returned(pre)
        ELSE IF n < 0 THEN Thrown("RangeError", -1, -1)
        ELSE Returned(pre \o <<".">> \o Substring(rest, 0, n))

\* radix-point precision: [pre, post] = param.split('.'), post cut or
\* zero-filled to the precision; '0'.repeat of a negative count is a RangeError
ShapePrecision(text, precision) ==
    LET dot == IndexOfDot(text, 0)
        pre == IF dot = -1 THEN text ELSE Substring(text, 0, dot)
        rest == IF dot = -1 THEN <<>> ELSE SubstringFrom(text, dot + 1)
        dot2 == IndexOfDot(rest, 0)
        post == IF dot2 = -1 THEN rest ELSE Substring(rest, 0, dot2)
        n == Trunc(precision)
    IN  IF precision.nan \/ (precision.ip = 0 /\ precision.fp = <<>>)
        THEN Returned(pre)
        ELSE IF n < 0 THEN Thrown("RangeError", -1, -1)
        ELSE Returned(pre \o <<".">> \o Substring(post \o Repeat("0", n), 0, n))

\* the '-' flag putting a minus sign before the value
SignAndPrefix_MinusFlag(text, format) ==
    LET sign == IF At(text, 0) = "-" THEN <<"-">>
                ELSE IF format.force_sign = "+" THEN <<"+">>
                ELSE IF format.force_sign = "-" THEN <<"-">>
                ELSE <<>>
        prefix == IF ~format.pretty THEN <<>>
                  ELSE CASE format.type = "o" -> <<"0", "o">>
                         [] format.type \in {"x", "X"} -> <<"0", "x">>
                         [] format.type = "b" -> <<"0", "b">>
                         [] OTHER -> <<>>
    IN  sign \o prefix

\* maybe_sign: the sign kept or forced, then the radix prefix
SignAndPrefix(text, format) ==
    LET sign == IF At(text, 0) = "-" THEN <<"-">>
                ELSE IF format.force_sign = "+" THEN <<"+">>
                ELSE IF format.force_sign = "-" THEN <<" ">>
                ELSE <<>>
        prefix == IF ~format.pretty THEN <<>>
                  ELSE CASE format.type = "o" -> <<"0", "o">>
                         [] format.type \in {"x", "X"} -> <<"0", "x">>
                         [] format.type = "b" -> <<"0", "b">>
                         [] OTHER -> <<>>
    IN  sign \o prefix

RECURSIVE PadZeroes_IgnoreSign(_, _, _)
\* zero padding that does not leave room for the sign and prefix
PadZeroes_IgnoreSign(param, width, sign_length) ==
    IF IntLessNum(Len(param), width)
    THEN PadZeroes_IgnoreSign(<<"0">> \o param, width, sign_length)
    ELSE param

\* while (param.length < format.width - maybe_sign.length) param = '0' + param
RECURSIVE PadZeroes(_, _, _)
PadZeroes(param, width, sign_length) ==
    IF IntLessNum(Len(param) + sign_length, width)
    THEN PadZeroes(<<"0">> \o param, width, sign_length)
    ELSE param

\* centring that gives the odd fill character to the left side
FillAlign_LeftHeavy(param, true_length, format) ==
    LET w == format.width
        d == w.ip - true_length
        left == CASE format.align = ">" -> d
                  [] format.align = "^" -> d - d \div 2
                  [] OTHER -> 0
        right == CASE format.align = "<" -> d
                   [] format.align = "^" -> d \div 2
                   [] OTHER -> 0
    IN  Repeat(format.fill, left) \o param \o Repeat(format.fill, right)

\* fill/align for format.width > true_length; diff = width - true_length
\* may carry a fraction, which repeat() drops after the halving
FillAlign(param, true_length, format) ==
    LET w == format.width
        d == w.ip - true_length
        num == ParseNat(w.fp)
        den == Pow(10, Len(w.fp))
        left == CASE format.align = ">" -> d
                  [] format.align = "^" -> d \div 2
                  [] OTHER -> 0
        right == CASE format.align = "<" -> d
                   [] format.align = "^" ->
                        ((d + 2 * (d % 2)) * den + 3 * num) \div (2 * den)
                   [] OTHER -> 0
    IN  Repeat(format.fill, left) \o param \o Repeat(format.fill, right)

\* fill/align measured on the text as it is, styling codes included
Aligned_RawLength(text, true_length, filled, format) ==
    IF ~filled /\ IntLessNum(Len(text), format.width)
    THEN Returned(FillAlign(text, Len(text), format))
    ELSE Returned(text)

\* if (!filled && format.width > true_length): fill and align
Aligned(text, true_length, filled, format) ==
    IF ~filled /\ IntLessNum(true_length, format.width)
    THEN Returned(FillAlign(text, true_length, format))
    ELSE Returned(text)

\* param = maybe_sign + param, true_length counting the zeroes and the sign
Signed(padded, unsigned_length, maybe_sign, true_length, format) ==
    Aligned(maybe_sign \o padded,
            true_length + (Len(padded) - unsigned_length) + Len(maybe_sign),
            format.pad_zeroes, format)

\* the zero flag dropped: the text is left to fill/align
Padded_FlagIgnored(unsigned, maybe_sign, true_length, format) ==
    Signed(unsigned, Len(unsigned), maybe_sign, true_length,
           [format EXCEPT !.pad_zeroes = FALSE])

\* the zero padding of the text stripped of its '-'
Padded(unsigned, maybe_sign, true_length, format) ==
    Signed(IF format.pad_zeroes THEN PadZeroes(unsigned, format.width, Len(maybe_sign))
           ELSE unsigned,
           Len(unsigned), maybe_sign, true_length, format)

\* sign, prefix and zeroes applied to every kind of value
PostProcess_AllNumeric(text, true_length, param_type, format) ==
    Padded(IF At(text, 0) = "-" THEN SubstringFrom(text, 1) ELSE text,
           SignAndPrefix(text, format), true_length, format)

\* the part of formatParam after the precision: sign, prefix and zeroes for
\* a number or bigint, then fill/align
PostProcess(text, true_length, param_type, format) ==
    IF IsNumeric(param_type)
    THEN Padded(IF At(text, 0) = "-" THEN SubstringFrom(text, 1) ELSE text,
                SignAndPrefix(text, format), true_length, format)
    ELSE Aligned(text, true_length, FALSE, format)

\* true_length = param.length after the precision is applied
Shaped(shaped, param_type, format) ==
    IF ~shaped.ok THEN shaped
    ELSE PostProcess(shaped.text, Len(shaped.text), param_type, format)

\* the precision applied to bigints as well
Converted_AnyNumeric(conv) ==
    IF ~conv.ok THEN conv
    ELSE IF IsNumeric(conv.param_type) /\ conv.format.precision # IntNum(-1)
    THEN Shaped(ShapePrecision(conv.text, conv.format.precision), conv.param_type,
                conv.format)
    ELSE PostProcess(conv.text, conv.true_length, conv.param_type, conv.format)

\* if (param_type == 'number' && format.precision != -1)
Converted(conv) ==
    IF ~conv.ok THEN conv
    ELSE IF conv.param_type = "number" /\ conv.format.precision # IntNum(-1)
    THEN Shaped(ShapePrecision(conv.text, conv.format.precision), conv.param_type,
                conv.format)
    ELSE PostProcess(conv.text, conv.true_length, conv.param_type, conv.format)

\* formatParam with the value's own type kept under every type code
formatParam_TypeKept(param, format, debugColors) ==
    Converted(IF ConvertType(param, format, debugColors).ok
              THEN [ConvertType(param, format, debugColors)
                        EXCEPT !.param_type = TypeOf(param)]
              ELSE ConvertType(param, format, debugColors))

\* formatParam(param, format, debugColors)
formatParam(param, format, debugColors) ==
    Converted(ConvertType(param, format, debugColors))

\* ------------------------------------------------------------ buildString
Aligns == {"<", "^", ">"}
FormatTypes == {"?", "o", "x", "X", "b", "e", "E", "n", "N"}

\* params[k], undefined outside the array and for a key that is no index
ParamAt(params, k) == IF k >= 0 /\ k < Len(params) THEN params[k + 1] ELSE Undefined

\* params[ref_number] for a number ref_number
ParamAtNum(params, v) == IF IsInteger(v) THEN ParamAt(params, IntOf(v)) ELSE Undefined

\* the while condition: typeof param == 'object' && '__rs_param_ref' in param
\* ("error" where the in operator is applied to null)
RefTest(param) ==
    CASE param.t = "null" -> "error"
      [] param.t = "ref" -> "ref"
      [] OTHER -> "value"

\* ref_number < 0 || ref_number >= params.length, for a number ref_number
OutOfRange(v, length) ==
    /\ ~v.nan
    /\ \/ v.neg /\ (v.ip > 0 \/ v.fp # <<>>)
       \/ ~v.neg /\ v.ip >= length

\* the reference loop reading the slot after the one referred to
Deref_NextSlot(params, i, param) ==
    LET ref_number == param.n
    IN  IF TypeOf(ref_number) # "number" \/ OutOfRange(ref_number, Len(params))
        THEN Thrown("InvalidReference", i - 1, -1)
        ELSE IF ref_number = IntNum(i - 1)
        THEN Thrown("SelfReference", i - 1, -1)
        ELSE [ok |-> TRUE,
              param |-> IF IsInteger(ref_number)
                        THEN ParamAt(params, IntOf(ref_number) + 1)
                        ELSE Undefined]

\* one turn of the reference loop for slot i - 1: the error thrown, or the
\* value param becomes
Deref(params, i, param) ==
    LET ref_number == param.n
    IN  IF TypeOf(ref_number) # "number" \/ OutOfRange(ref_number, Len(params))
        THEN Thrown("InvalidReference", i - 1, -1)
        ELSE IF ref_number = IntNum(i - 1)
        THEN Thrown("SelfReference", i - 1, -1)
        ELSE [ok |-> TRUE, param |-> ParamAtNum(params, ref_number)]

\* the index after the run of digits that starts at idx
RECURSIVE ScanDigits(_, _)
ScanDigits(string, idx) ==
    IF is_digit(At(string, idx)) THEN ScanDigits(string, idx + 1) ELSE idx

\* fill/align, sign, pretty and zero flags, from idx = 1
ParseFlags(string) ==
    LET hasFill == At(string, 2) \in Aligns
        idx1 == IF hasFill THEN 2 ELSE 1
        hasAlign == At(string, idx1) \in Aligns
        idx2 == IF hasAlign THEN idx1 + 1 ELSE idx1
        hasSign == At(string, idx2) \in {"+", "-"}
        idx3 == IF hasSign THEN idx2 + 1 ELSE idx2
        pretty == At(string, idx3) = "#"
        idx4 == IF pretty THEN idx3 + 1 ELSE idx3
        pad_zeroes == At(string, idx4) = "0"
        idx5 == IF pad_zeroes THEN idx4 + 1 ELSE idx4
    IN  [fill |-> IF hasFill THEN At(string, 1) ELSE " ",
         align |-> IF hasAlign THEN At(string, idx1) ELSE ">",
         force_sign |-> IF hasSign THEN At(string, idx2) ELSE "",
         pretty |-> pretty, pad_zeroes |-> pad_zeroes, idx |-> idx5]

\* the deferred width read without moving on to the next slot
ParseWidth_NoAdvance(strings, params, i, string, idx) ==
    IF is_digit(At(string, idx))
    THEN [ok |-> TRUE, width |-> IntNum(ParseNat(Substring(string, idx, ScanDigits(string, idx + 1)))),
          string |-> string, i |-> i, idx |-> ScanDigits(string, idx + 1), slot |-> -1]
    ELSE IF idx = Len(string)
    THEN IF TypeOf(ParamAt(params, i)) # "number"
         THEN Thrown("InvalidWidth", i - 1, idx)
         ELSE [ok |-> TRUE, width |-> ParamAt(params, i),
               string |-> string \o strings[i + 2], i |-> i, idx |-> idx, slot |-> i]
    ELSE [ok |-> TRUE, width |-> IntNum(0), string |-> string, i |-> i, idx |-> idx,
          slot |-> -1]

\* the width: inline digits, or at the end of the string the next parameter,
\* whose trailing string is then fused on (string += strings[++i])
ParseWidth(strings, params, i, string, idx) ==
    IF is_digit(At(string, idx))
    THEN [ok |-> TRUE, width |-> IntNum(ParseNat(Substring(string, idx, ScanDigits(string, idx + 1)))),
          string |-> string, i |-> i, idx |-> ScanDigits(string, idx + 1), slot |-> -1]
    ELSE IF idx = Len(string)
    THEN IF TypeOf(ParamAt(params, i)) # "number"
         THEN Thrown("InvalidWidth", i - 1, idx)
         ELSE [ok |-> TRUE, width |-> ParamAt(params, i),
               string |-> string \o strings[i + 2], i |-> i + 1, idx |-> idx, slot |-> i]
    ELSE [ok |-> TRUE, width |-> IntNum(0), string |-> string, i |-> i, idx |-> idx,
          slot |-> -1]

\* the precision after a '.': inline digits, or the next parameter
ParsePrecision(strings, params, i, string, idx) ==
    IF At(string, idx) # "."
    THEN [ok |-> TRUE, precision |-> IntNum(-1), string |-> string, i |-> i, idx |-> idx,
          slot |-> -1]
    ELSE IF ~is_digit(At(string, idx + 1))
    THEN IF TypeOf(ParamAt(params, i)) # "number"
         THEN Thrown("InvalidPrecision", i - 1, idx + 1)
         ELSE [ok |-> TRUE, precision |-> ParamAt(params, i),
               string |-> string \o strings[i + 2], i |-> i + 1, idx |-> idx + 1, slot |-> i]
    ELSE [ok |-> TRUE,
          precision |-> IntNum(ParseNat(Substring(string, idx + 1, ScanDigits(string, idx + 1)))),
          string |-> string, i |-> i, idx |-> ScanDigits(string, idx + 1), slot |-> -1]

\* the end of the specifier, a tab or a line feed ending it as a space does
ParseEnd_Whitespace(string, idx) ==
    IF At(string, idx) = ":" THEN idx + 1
    ELSE IF At(string, idx) \notin {" ", "\t", "\n", "undefined"} THEN -1
    ELSE idx

\* the end of the specifier: a ':' is consumed, a space or the end of the
\* string is left alone, anything else is an error (idx -1)
ParseEnd(string, idx) ==
    IF At(string, idx) = ":" THEN idx + 1
    ELSE IF At(string, idx) # " " /\ At(string, idx) # "undefined" THEN -1
    ELSE idx

\* out.push(param.toString() + rest)
Unformatted(param, rest, i) ==
    IF CanToString(param)
    THEN [ok |-> TRUE, text |-> ToStringR(param, 10) \o rest, i |-> i,
          width |-> -1, prec |-> -1,
          last |-> [formatted |-> FALSE, param |-> param, format |-> DefaultFormat,
                    text |-> ToStringR(param, 10)]]
    ELSE Thrown("TypeError", -1, -1)

\* out.push(formatted + string.substring(idx))
Pushed(formatted, param, format, rest, i, width_slot, prec_slot) ==
    IF ~formatted.ok THEN formatted
    ELSE [ok |-> TRUE, text |-> formatted.text \o rest, i |-> i,
          width |-> width_slot, prec |-> prec_slot,
          last |-> [formatted |-> TRUE, param |-> param, format |-> format,
                    text |-> formatted.text]]

\* formatParam on the parsed specifier
WithFormat(param, debugColors, format, rest, i, width_slot, prec_slot) ==
    Pushed(formatParam(param, format, debugColors), param, format, rest, i,
           width_slot, prec_slot)

\* the end of the specifier
WithType(param, debugColors, flags, w, p, type, idxT) ==
    IF ParseEnd(p.string, idxT) = -1 THEN Thrown("MalformedSpecifier", p.i - 1, idxT)
    ELSE WithFormat(param, debugColors,
                    [fill |-> flags.fill, align |-> flags.align,
                     force_sign |-> flags.force_sign, pretty |-> flags.pretty,
                     pad_zeroes |-> flags.pad_zeroes, width |-> w.width,
                     precision |-> p.precision, type |-> type],
                    SubstringFrom(p.string, ParseEnd(p.string, idxT)), p.i, w.slot, p.slot)

\* the format type
WithPrecision(param, debugColors, flags, w, p) ==
    IF ~p.ok THEN p
    ELSE IF At(p.string, p.idx) \in FormatTypes
    THEN WithType(param, debugColors, flags, w, p, At(p.string, p.idx), p.idx + 1)
    ELSE WithType(param, debugColors, flags, w, p, "", p.idx)

WithWidth(strings, params, param, debugColors, flags, w) ==
    IF ~w.ok THEN w
    ELSE WithPrecision(param, debugColors, flags, w,
                       ParsePrecision(strings, params, w.i, w.string, w.idx))

WithFlags(strings, params, i, param, debugColors, flags) ==
    WithWidth(strings, params, param, debugColors, flags,
              ParseWidth(strings, params, i, strings[i + 1], flags.idx))

\* the escape dropping both colons
FormatSlot_DropBoth(strings, params, i, param, debugColors) ==
    IF At(strings[i + 1], 0) # ":" THEN Unformatted(param, strings[i + 1], i)
    ELSE IF At(strings[i + 1], 1) = ":"
    THEN Unformatted(param, SubstringFrom(strings[i + 1], 2), i)
    ELSE WithFlags(strings, params, i, param, debugColors, ParseFlags(strings[i + 1]))

\* the body of the slot loop after the references are resolved: what is
\* pushed on out and the i the loop goes on from, or the error thrown.
\* width and prec name the parameters consumed as width and precision, last
\* the value formatted, the specifier parsed for it and formatParam's text.
FormatSlot(strings, params, i, param, debugColors) ==
    IF At(strings[i + 1], 0) # ":" THEN Unformatted(param, strings[i + 1], i)
    ELSE IF At(strings[i + 1], 1) = ":"
    THEN Unformatted(param, SubstringFrom(strings[i + 1], 1), i)
    ELSE WithFlags(strings, params, i, param, debugColors, ParseFlags(strings[i + 1]))

\* out.join('')
RECURSIVE Join(_)
Join(out) == IF out = <<>> THEN <<>> ELSE Head(out) \o Join(Tail(out))

\* `.raw` read off the primitive string buildString returns: strings have
\* no such property
RawOf(string) == Undefined

\* the value buildString's caller hands back: rs.raw reads `.raw` off the
\* result, RsString.toString returns it
ReturnValue(entry, string) == IF entry = "raw" THEN RawOf(string) ELSE Str(string)

\* the reference loop of one slot run to its end, for a chain that ends;
\* "Diverges" stands for a chain that never leaves the loop
RECURSIVE Resolve(_, _, _, _)
Resolve(params, i, param, fuel) ==
    CASE RefTest(param) = "value" -> [ok |-> TRUE, param |-> param]
      [] RefTest(param) = "error" -> Thrown("TypeError", -1, -1)
      [] OTHER ->
            LET d == Deref(params, i, param)
            IN  IF ~d.ok THEN d
                ELSE IF fuel = 0 THEN Thrown("Diverges", i - 1, -1)
                ELSE Resolve(params, i, d.param, fuel - 1)

\* buildString(strings, params, debugColors) as a function of its arguments
RECURSIVE RenderFrom(_, _, _, _, _)
RenderFormatted(strings, params, debugColors, out, f) ==
    IF ~f.ok THEN f
    ELSE RenderFrom(strings, params, debugColors, f.i + 1, Append(out, f.text))

RenderResolved(strings, params, debugColors, i, out, r) ==
    IF ~r.ok THEN r
    ELSE RenderFormatted(strings, params, debugColors, out,
                         FormatSlot(strings, params, i, r.param, debugColors))

RenderFrom(strings, params, debugColors, i, out) ==
    IF i >= Len(strings) THEN Returned(Join(out))
    ELSE RenderResolved(strings, params, debugColors, i, out,
                        Resolve(params, i, params[i], Len(params)))

buildString(strings, params, debugColors) ==
    RenderFrom(strings, params, debugColors, 1, <<strings[1]>>)

\* --------------------------------------------- format (the regex formatter)
\* a capture group: the text it matched, or undefined when it took no part
Group(text) == Str(text)

\* the insertion point that starts after the '{' at a - 1:
\* (\d*?) (?: : (?:(.?)(\^|>|<))? (\+)? (#)? (0)? (\d*)? (\.\d*)? (type)? )? \}
\* For text without line breaks the first way the greedy groups fit is the
\* only one that can reach the closing '}'.
\* A group that took part holds its text, the empty text for (\d*?) and (.?);
\* (\d*)? that could only match empty takes no part.
LegacySpecifier(s, a, colon) ==
    LET hasFill == At(s, colon + 2) \in Aligns /\ At(s, colon + 1) # "undefined"
        idx1 == IF hasFill THEN colon + 2 ELSE colon + 1
        hasAlign == At(s, idx1) \in Aligns
        idx2 == IF hasAlign THEN idx1 + 1 ELSE idx1
        hasSign == At(s, idx2) = "+"
        idx3 == IF hasSign THEN idx2 + 1 ELSE idx2
        pretty == At(s, idx3) = "#"
        idx4 == IF pretty THEN idx3 + 1 ELSE idx3
        pad_zeroes == At(s, idx4) = "0"
        idx5 == IF pad_zeroes THEN idx4 + 1 ELSE idx4
        idx6 == ScanDigits(s, idx5)
        hasPrecision == At(s, idx6) = "."
        idx7 == IF hasPrecision THEN ScanDigits(s, idx6 + 1) ELSE idx6
        hasType == At(s, idx7) \in {"?", "o", "x", "X", "b", "e", "E"}
        idx8 == IF hasType THEN idx7 + 1 ELSE idx7
    IN  IF At(s, idx8) # "}" THEN [found |-> FALSE]
        ELSE [found |-> TRUE, start |-> a - 1, end |-> idx8 + 1, whole |-> "insert",
              param_number |-> Group(Substring(s, a, colon)),
              fill_character |-> IF hasAlign
                                 THEN Group(IF hasFill THEN <<At(s, colon + 1)>> ELSE <<>>)
                                 ELSE Undefined,
              align_direction |-> IF hasAlign THEN Group(<<At(s, idx1)>>) ELSE Undefined,
              sign |-> IF hasSign THEN Group(<<"+">>) ELSE Undefined,
              pretty |-> IF pretty THEN Group(<<"#">>) ELSE Undefined,
              pad_zeroes |-> IF pad_zeroes THEN Group(<<"0">>) ELSE Undefined,
              width |-> IF idx6 > idx5 THEN Group(Substring(s, idx5, idx6)) ELSE Undefined,
              precision |-> IF hasPrecision THEN Group(Substring(s, idx6, idx7))
                            ELSE Undefined,
              type |-> IF hasType THEN Group(<<At(s, idx7)>>) ELSE Undefined]

NoGroups(kind, start, end, number) ==
    [found |-> TRUE, start |-> start, end |-> end, whole |-> kind,
     param_number |-> number,
     fill_character |-> Undefined, align_direction |-> Undefined, sign |-> Undefined,
     pretty |-> Undefined, pad_zeroes |-> Undefined, width |-> Undefined,
     precision |-> Undefined, type |-> Undefined]

\* FORMAT_REGEX tried at index k: '{{', '}}' or an insertion point
MatchAt(s, k) ==
    IF At(s, k) = "{" /\ At(s, k + 1) = "{" THEN NoGroups("{{", k, k + 2, Undefined)
    ELSE IF At(s, k) = "}" /\ At(s, k + 1) = "}" THEN NoGroups("}}", k, k + 2, Undefined)
    ELSE IF At(s, k) # "{" THEN [found |-> FALSE]
    ELSE IF At(s, ScanDigits(s, k + 1)) = "}"
    THEN NoGroups("insert", k, ScanDigits(s, k + 1) + 1,
                  Group(Substring(s, k + 1, ScanDigits(s, k + 1))))
    ELSE IF At(s, ScanDigits(s, k + 1)) = ":"
    THEN LegacySpecifier(s, k + 1, ScanDigits(s, k + 1))
    ELSE [found |-> FALSE]

\* the next match of FORMAT_REGEX at or after index k (the g flag)
RECURSIVE NextMatch(_, _)
NextMatch(s, k) ==
    IF k >= Len(s) THEN [found |-> FALSE]
    ELSE IF MatchAt(s, k).found THEN MatchAt(s, k)
    ELSE NextMatch(s, k + 1)

\* Number.prototype.toExponential(): the mantissa, 'e', the exponent's sign
\* and the exponent
RECURSIVE IndexOfE(_, _)
IndexOfE(s, k) ==
    IF k >= Len(s) THEN -1 ELSE IF s[k + 1] = "E" THEN k ELSE IndexOfE(s, k + 1)

toExponential(v) ==
    IF IndexOfE(SciString(v), 0) = -1 THEN SciString(v)
    ELSE Substring(SciString(v), 0, IndexOfE(SciString(v), 0))
         \o (IF At(SciString(v), IndexOfE(SciString(v), 0) + 1) = "-"
             THEN <<"e">> ELSE <<"e", "+">>)
         \o SubstringFrom(SciString(v), IndexOfE(SciString(v), 0) + 1)

\* the switch on $type
LegacyConvert(param, m) ==
    LET param_type == TypeOf(param)
        typeError == Thrown("TypeError", -1, -1)
    IN  IF m.type = Group(<<"?">>)
        THEN Returned(inspect(param, TRUE, m.pretty # Group(<<"#">>)))
        ELSE IF ~CanToString(param) THEN typeError
        ELSE CASE m.type = Group(<<"o">>) -> Returned(ToStringR(param, 8))
               [] m.type = Group(<<"x">>) -> Returned(ToStringR(param, 16))
               [] m.type = Group(<<"X">>) -> Returned(toUpperCase(ToStringR(param, 16)))
               [] m.type = Group(<<"b">>) -> Returned(ToStringR(param, 2))
               [] m.type = Group(<<"e">>) ->
                    Returned(CASE param_type = "number" -> toExponential(param)
                               [] param_type = "bigint" -> toLowerCase(SciString(param))
                               [] OTHER -> ToStringR(param, 10))
               [] m.type = Group(<<"E">>) ->
                    Returned(CASE param_type = "number" -> toUpperCase(toExponential(param))
                               [] param_type = "bigint" -> SciString(param)
                               [] OTHER -> ToStringR(param, 10))
               [] OTHER -> Returned(ToStringR(param, 10))

\* radix-point precision: post cut or zero-filled to +$precision.substring(1)
LegacyPrecision(text, precision) ==
    LET dot == IndexOfDot(text, 0)
        pre == IF dot = -1 THEN text ELSE Substring(text, 0, dot)
        rest == IF dot = -1 THEN <<>> ELSE SubstringFrom(text, dot + 1)
        dot2 == IndexOfDot(rest, 0)
        post == IF dot2 = -1 THEN rest ELSE Substring(rest, 0, dot2)
        n == ParseNat(Tail(precision.s))
    IN  pre \o <<".">> \o [k \in 1..n |-> IF k <= Len(post) THEN post[k] ELSE "0"]

\* maybe_sign: the '-' taken off the text or the forced '+', then '0x'
LegacySign(text, m) ==
    (IF At(text, 0) = "-" THEN <<"-">>
     ELSE IF m.sign = Group(<<"+">>) THEN <<"+">>
     ELSE <<>>)
    \o (IF m.type \in {Group(<<"x">>), Group(<<"X">>)} /\ m.pretty = Group(<<"#">>)
        THEN <<"0", "x">> ELSE <<>>)

\* the fill loops: one character at a time on the aligned side, on both for
\* '^' and then one more on the left
LegacyFill(text, width, m) ==
    LET align == IF m.align_direction = Undefined THEN ">" ELSE m.align_direction.s[1]
        fill == IF m.fill_character \in {Undefined, Group(<<>>)} THEN " "
                ELSE m.fill_character.s[1]
        d == IF width > Len(text) THEN width - Len(text) ELSE 0
    IN  CASE align = ">" -> Repeat(fill, d) \o text
          [] align = "<" -> text \o Repeat(fill, d)
          [] OTHER -> Repeat(fill, (d \div 2) + (d % 2)) \o text \o Repeat(fill, d \div 2)

\* width = +$width, 0 for a group that took no part
LegacyWidth(m) == IF m.width = Undefined THEN 0 ELSE ParseNat(m.width.s)

\* fill/align, unless zeroes were padded
LegacyFilled(text, filled, m) ==
    IF filled THEN text ELSE LegacyFill(text, LegacyWidth(m), m)

\* the sign block of numbers and bigints, zero padding included
LegacyPadded(text, param_type, m) ==
    IF ~IsNumeric(param_type) THEN LegacyFilled(text, FALSE, m)
    ELSE IF m.pad_zeroes = Group(<<"0">>)
    THEN LegacyFilled(LegacySign(text, m)
                      \o PadZeroes(IF At(text, 0) = "-" THEN Tail(text) ELSE text,
                                   IntNum(LegacyWidth(m)), Len(LegacySign(text, m))),
                      TRUE, m)
    ELSE LegacyFilled(LegacySign(text, m)
                      \o (IF At(text, 0) = "-" THEN Tail(text) ELSE text),
                      FALSE, m)

\* precision on numbers, then the rest
LegacyShaped(conv, param_type, m) ==
    IF ~conv.ok THEN conv
    ELSE IF param_type = "number" /\ m.precision # Undefined
    THEN Returned(LegacyPadded(LegacyPrecision(conv.text, m.precision), param_type, m))
    ELSE Returned(LegacyPadded(conv.text, param_type, m))

\* let param = $param_number === undefined ? params[param_counter++]
\*                                         : params[+$param_number]
\* with the parameter number the error names
LegacySelect(params, param_counter, m) ==
    IF m.param_number = Undefined
    THEN [param |-> ParamAt(params, param_counter), counter |-> param_counter + 1,
          named |-> param_counter]
    ELSE [param |-> ParamAt(params, ParseNat(m.param_number.s)), counter |-> param_counter,
          named |-> IF m.param_number.s # <<>> THEN ParseNat(m.param_number.s)
                    ELSE param_counter - 1]

LegacyResult(r, counter) ==
    IF ~r.ok THEN r ELSE [ok |-> TRUE, text |-> r.text, counter |-> counter]

LegacyInserted(sel, m) ==
    IF sel.param = Undefined THEN Thrown("MissingArgument", sel.named, -1)
    ELSE LegacyResult(LegacyShaped(LegacyConvert(sel.param, m), TypeOf(sel.param), m),
                      sel.counter)

\* the replacer format hands to str.replace: the text put in place of the
\* match and the counter after it, or the error thrown
replacer(params, param_counter, m) ==
    IF m.whole = "{{" THEN [ok |-> TRUE, text |-> <<"{">>, counter |-> param_counter]
    ELSE IF m.whole = "}}" THEN [ok |-> TRUE, text |-> <<"}">>, counter |-> param_counter]
    ELSE LegacyInserted(LegacySelect(params, param_counter, m), m)

\* ------------------------------------------------------------------ state
VARIABLES
    strings,      \* the template's string parts
    params,       \* the template's parameters
    pc,           \* "idle", "slot" (in the loop, at slot i - 1), "returned", "threw"
    entry,        \* the tag in use: "rs" (RsString.toString) or "raw" (rs.raw)
    debugColors,  \* buildString's debugColors argument
    i,            \* the loop index: slot i - 1 is followed by strings[i]
    param,        \* the slot's value as far as its references are resolved
    out,          \* the pieces pushed so far
    ret,          \* the value handed back to the caller
    err,          \* the error thrown
    visited,      \* history: the slot indices the current reference chain has read
    roles,        \* history: what each slot was consumed as
    last,         \* history: the last slot formatted (value, specifier, text)
    str,          \* format: the format string
    param_counter,\* format: the counter of unnumbered insertion points
    lastIndex,    \* format: where str.replace looks for the next match
    __debugColors,\* RsString: the flag toString reads
    cachedColor,  \* RsString: the coloured rendering, or null
    cachedPlain,  \* RsString: the plain rendering, or null
    stream        \* printToStream: what the last stream.write was given

vars ==
    <<strings, params, pc, entry, debugColors, i, param, out, ret, err, visited, roles, last,
      str, param_counter, lastIndex, __debugColors, cachedColor, cachedPlain, stream>>

\* what buildString works on, and what format works on
rsVars == <<strings, debugColors, i, param, visited, roles, last>>
formatVars == <<str, param_counter, lastIndex>>
printVars == <<__debugColors, cachedColor, cachedPlain, stream>>

\* ----------------------------------------------------------------- inputs
\* the values formatted by the one-slot templates
FormatValues ==
    {IntNum(15), IntNum(-1), Num(FALSE, 1, <<"2", "3", "4", "5", "6", "7", "8", "9">>),
     Num(TRUE, 2, <<"5">>), Num(TRUE, 0, <<"4">>), Big(1000), Big(-1), Str(<<"a", "b">>),
     ObjA1,
     Bool(TRUE), Undefined}

\* every primitive, and the two objects
PlainValues ==
    {IntNum(15), IntNum(1), Num(TRUE, 2, <<"5">>), NaN, Big(-7), Str(<<"a", "b">>), Str(<<>>),
     Str(<<"a">>), Str(<<"a", "a", "a">>),
     Bool(TRUE), Bool(FALSE), Null, Undefined, ObjA1, Arr12}

\* a fraction whose digits in radix 2, 8 and 16 end
Dyadic(v) ==
    IF v.t = "number" THEN v.fp \in {<<>>, <<"5">>, <<"2", "5">>, <<"7", "5">>} ELSE TRUE

FillAligns == {<<>>, <<"<">>, <<"*", "^">>}
Signs == {<<>>, <<"+">>, <<"-">>}
Pretties == {<<>>, <<"#">>}
ZeroFlags == {<<>>, <<"0">>}
Widths == {<<>>, IntRadix(WidthDigit, 10)}
Precisions == {<<>>, <<".", "0">>, <<".", "3">>}
TypeCodes == {<<>>} \cup {<<c>> : c \in FormatTypes}
RadixCodes == {<<"o">>, <<"x">>, <<"X">>, <<"b">>}

\* one slot followed by a specifier assembled from the grammar's parts (a
\* radix conversion of a fraction only where its digits end)
FormatTemplate ==
    \E fa \in FillAligns, sg \in Signs, pr \in Pretties, zp \in ZeroFlags,
       wd \in Widths, pn \in Precisions, ty \in TypeCodes, v \in FormatValues :
        /\ IF ty \in RadixCodes THEN Dyadic(v) ELSE TRUE
        /\ strings = <<<<>>, <<":">> \o fa \o sg \o pr \o zp \o wd \o pn \o ty>>
        /\ params = <<v>>

\* one slot followed by text that is no specifier, by an escaped ':' or by
\* a specifier and what ends it; and templates without a slot
PlainSegments ==
    {<<>>, <<" ", "z">>, <<":", ":">>, <<":", ":", "x">>, <<"x", ":">>,
     <<":", "x", ":", "z">>, <<":", "x", " ", "z">>, <<":", "x", "z">>,
     <<":", "+", ":">>, <<":", "+">>, <<":", "-">>, <<":", "^", "5">>, <<":", "^", "4">>,
     <<":", "x", "\t", "z">>, <<":", "x", "\n">>, <<":", "\n", "z">>}

PlainTemplate ==
    \/ \E seg \in PlainSegments, v \in PlainValues :
          strings = <<<<"a">>, seg>> /\ params = <<v>>
    \/ \E seg \in {<<>>, <<"a", ":", "x">>} : strings = <<seg>> /\ params = <<>>

\* three slots holding values and references
RefValues ==
    {IntNum(15), Str(<<"a", "b">>), Null, Ref(Num(FALSE, 0, <<"5">>)), Ref(NaN),
     Ref(Str(<<"0">>))}
    \cup {Ref(IntNum(j)) : j \in -1..MaxRef}

RefStrings ==
    {<<<<>>, <<" ">>, <<" ">>, <<>>>>,
     <<<<>>, <<":", "x">>, <<":", ">", "3">>, <<":", "?">>>>,
     <<<<>>, <<":">>, <<>>, <<":", "x">>>>,
     <<<<>>, <<":", ".">>, <<":", "+">>, <<>>>>}

RefTemplate ==
    \E ss \in RefStrings, a \in RefValues, b \in RefValues, c \in RefValues :
        strings = ss /\ params = <<a, b, c>>

\* three slots, the second offered as a deferred width or precision
DeferredValues ==
    {IntNum(k) : k \in -1..MaxDeferred}
    \cup {Num(FALSE, 2, <<"5">>), NaN, Str(<<"3">>), Ref(IntNum(0)), Undefined}

DeferredHeads ==
    {<<":">>, <<":", "<">>, <<":", "0">>, <<":", "+", "#">>, <<":", "*", "^">>,
     <<":", ".">>, <<":", "x">>, <<":", "7">>}

DeferredTails ==
    {<<>>, <<"x">>, <<":", "z">>, <<".">>, <<".", "2">>, <<"3">>, <<" ", "q">>, <<"<">>}

DeferredTemplate ==
    \E hd \in DeferredHeads, tl \in DeferredTails, tl2 \in {<<>>, <<":", "x">>},
       a \in {IntNum(15), Str(<<"a", "b">>)}, b \in DeferredValues,
       c \in {IntNum(2), Str(<<"a", "b">>)} :
        strings = <<<<>>, hd, tl, tl2>> /\ params = <<a, b, c>>

\* one integer, number or bigint, under an ordinal type
OrdinalValues ==
    {IntNum(k) : k \in -MaxOrdinal..MaxOrdinal} \cup {Big(k) : k \in -MaxOrdinal..MaxOrdinal}
    \cup {IntNum(1000), Big(1000)}

OrdinalTemplate ==
    \E v \in OrdinalValues, ty \in {"n", "N"} :
        strings = <<<<>>, <<":", ty>>>> /\ params = <<v>>

\* the templates the model renders
Templates ==
    FormatTemplate \/ PlainTemplate \/ RefTemplate \/ DeferredTemplate \/ OrdinalTemplate

NoError == Err("none", -1, -1)

\* nothing has been called yet
Idle ==
    /\ pc = "idle"
    /\ entry = "none"
    /\ debugColors = FALSE
    /\ i = 0
    /\ param = Undefined
    /\ out = <<>>
    /\ ret = Undefined
    /\ err = NoError
    /\ visited = {}
    /\ roles = [k \in 1..Len(params) |-> <<>>]
    /\ last = [formatted |-> FALSE, param |-> Undefined, format |-> DefaultFormat,
               text |-> <<>>]
    /\ param_counter = 0
    /\ lastIndex = 0
    /\ __debugColors = FALSE
    /\ cachedColor = Null
    /\ cachedPlain = Null
    /\ stream = Undefined

Init ==
    /\ Templates
    /\ str = <<>>
    /\ Idle

\* the loop test for for (let i = ...; i < strings.length; ++i): the next
\* slot is taken up, or out.join('') is returned
Enter(e, next_i, next_out) ==
    /\ i' = next_i
    /\ out' = next_out
    /\ IF next_i < Len(strings)
       THEN /\ pc' = "slot"
            /\ param' = params[next_i]
            /\ visited' = {next_i - 1}
            /\ ret' = ret
       ELSE /\ pc' = "returned"
            /\ param' = param
            /\ visited' = visited
            /\ ret' = ReturnValue(e, Join(next_out))

\* a tag is applied and the render starts: rs`...` rendered by toString,
\* plain or coloured, or rs.raw`...`
Call(e, dc) ==
    /\ pc = "idle"
    /\ e = "raw" => ~dc
    /\ entry' = e
    /\ debugColors' = dc
    /\ Enter(e, 1, <<strings[1]>>)
    /\ UNCHANGED <<strings, params, err, roles, last>>
    /\ UNCHANGED formatVars
    /\ UNCHANGED printVars

\* one turn of the while loop that resolves parameter references
ResolveRef ==
    /\ pc = "slot"
    /\ RefTest(param) # "value"
    /\ LET d == IF RefTest(param) = "error" THEN Thrown("TypeError", -1, -1)
                ELSE Deref(params, i, param)
       IN  IF d.ok
           THEN /\ param' = d.param
                /\ visited' = visited \cup
                       (IF IsInteger(param.n) THEN {IntOf(param.n)} ELSE {})
                /\ UNCHANGED <<pc, err>>
           ELSE /\ pc' = "threw"
                /\ err' = d.err
                /\ UNCHANGED <<param, visited>>
    /\ UNCHANGED <<strings, params, entry, debugColors, i, out, ret, roles, last>>
    /\ UNCHANGED formatVars
    /\ UNCHANGED printVars

\* out.push(...) and ++i, or the error leaves buildString
Push(f) ==
    IF f.ok
    THEN /\ roles' = [k \in 1..Len(params) |->
                        roles[k]
                        \o (IF k = i THEN <<"value">> ELSE <<>>)
                        \o (IF k = f.width + 1 THEN <<"width">> ELSE <<>>)
                        \o (IF k = f.prec + 1 THEN <<"precision">> ELSE <<>>)]
         /\ last' = f.last
         /\ Enter(entry, f.i + 1, Append(out, f.text))
         /\ UNCHANGED err
    ELSE /\ pc' = "threw"
         /\ err' = f.err
         /\ UNCHANGED <<i, param, out, ret, visited, roles, last>>

\* the rest of the loop body: the specifier is parsed, the value formatted
\* and pushed, and the loop goes on to the next slot
FormatStep ==
    /\ pc = "slot"
    /\ RefTest(param) = "value"
    /\ Push(FormatSlot(strings, params, i, param, debugColors))
    /\ UNCHANGED <<strings, params, entry, debugColors>>
    /\ UNCHANGED formatVars
    /\ UNCHANGED printVars

\* ------------------------------------------------------- format, its steps
\* three pieces of a format string, a space between them
LegacyPieces ==
    {<<"{", "}">>,
     <<"{", "0", "}">>,
     <<"{", "1", "}">>,
     <<"{", "2", "}">>,
     <<"{", "{">>,
     <<"}", "}">>,
     <<"{", ":", ">", "3", "}">>,
     <<"b">>}

LegacyParams ==
    {<<>>, <<Str(<<"a">>), Str(<<"b">>)>>, <<IntNum(15), Str(<<"a", "b">>), Big(1000)>>}

LegacyCursorTemplate ==
    \E p1 \in LegacyPieces, p2 \in LegacyPieces, p3 \in LegacyPieces, ps \in LegacyParams :
        str = p1 \o <<" ">> \o p2 \o <<" ">> \o p3 /\ params = ps

\* one insertion point with a specifier assembled from the regex's groups
LegacyPrecisions == {<<>>, <<".">>, <<".", "0">>, <<".", "3">>}
LegacyTypes == {<<>>} \cup {<<c>> : c \in {"?", "o", "x", "X", "b", "e", "E"}}

LegacySpecifierTemplate ==
    \E fa \in FillAligns, sg \in {<<>>, <<"+">>}, pr \in Pretties, zp \in ZeroFlags,
       wd \in Widths, pn \in LegacyPrecisions, ty \in LegacyTypes, v \in FormatValues :
        /\ IF ty \in RadixCodes THEN Dyadic(v) ELSE TRUE
        /\ str = <<"{", ":">> \o fa \o sg \o pr \o zp \o wd \o pn \o ty \o <<"}">>
        /\ params = <<v>>

LegacyInit ==
    /\ LegacyCursorTemplate \/ LegacySpecifierTemplate
    /\ strings = <<<<>>>>
    /\ Idle

\* format(str, ...params) is called: let param_counter = 0, and str.replace
\* starts at the beginning of str
FormatCall ==
    /\ pc = "idle"
    /\ pc' = "replace"
    /\ entry' = "format"
    /\ param_counter' = 0
    /\ lastIndex' = 0
    /\ out' = <<>>
    /\ UNCHANGED <<params, ret, err, str>>
    /\ UNCHANGED rsVars
    /\ UNCHANGED printVars

\* the replacer has run on a match: its text takes the place of the match,
\* or its error leaves format
Replaced(m, r) ==
    IF r.ok
    THEN /\ out' = out \o <<Substring(str, lastIndex, m.start), r.text>>
         /\ lastIndex' = m.end
         /\ param_counter' = r.counter
         /\ UNCHANGED <<pc, ret, err>>
    ELSE /\ pc' = "threw"
         /\ err' = r.err
         /\ UNCHANGED <<out, lastIndex, param_counter, ret>>

\* str.replace looks for the next match: the replacer is called on it, or the
\* rest of str is kept and the new string returned
Searched(m) ==
    IF m.found THEN Replaced(m, replacer(params, param_counter, m))
    ELSE /\ out' = Append(out, SubstringFrom(str, lastIndex))
         /\ pc' = "returned"
         /\ ret' = Str(Join(Append(out, SubstringFrom(str, lastIndex))))
         /\ UNCHANGED <<lastIndex, param_counter, err>>

Replace ==
    /\ pc = "replace"
    /\ Searched(NextMatch(str, lastIndex))
    /\ UNCHANGED <<params, entry, str>>
    /\ UNCHANGED rsVars
    /\ UNCHANGED printVars

LegacyNext ==
    \/ FormatCall
    \/ Replace

LegacySpec == LegacyInit /\ [][LegacyNext]_vars

Next ==
    \/ \E e \in {"rs", "raw"}, dc \in BOOLEAN : Call(e, dc)
    \/ ResolveRef
    \/ FormatStep

Spec == Init /\ [][Next]_vars

\* ------------------------------------------------- RsString, printToStream
\* a render stored in its cache and returned, or its error passed on with
\* the caches as they were
Cached(r, colors, color, plain) ==
    IF ~r.ok THEN r
    ELSE [ok |-> TRUE, text |-> r.text,
          cachedColor |-> IF colors THEN Str(r.text) ELSE color,
          cachedPlain |-> IF colors THEN plain ELSE Str(r.text)]

\* a render that fills the plain cache whatever the flag
toString_SharedCache(flag, color, plain, ss, ps) ==
    IF plain = Null THEN Cached(buildString(ss, ps, flag), FALSE, color, plain)
    ELSE [ok |-> TRUE, text |-> plain.s, cachedColor |-> color, cachedPlain |-> plain]

\* RsString.toString(): the cache the flag selects, rendered first if it is
\* null
toString(flag, color, plain, ss, ps) ==
    IF flag
    THEN IF color = Null THEN Cached(buildString(ss, ps, TRUE), TRUE, color, plain)
         ELSE [ok |-> TRUE, text |-> color.s, cachedColor |-> color, cachedPlain |-> plain]
    ELSE IF plain = Null THEN Cached(buildString(ss, ps, FALSE), FALSE, color, plain)
         ELSE [ok |-> TRUE, text |-> plain.s, cachedColor |-> color, cachedPlain |-> plain]

\* a call that has not come back keeps the program in it
Running == pc = "hangs"

\* what a call of toString leaves: the string returned and the caches, or
\* the error thrown; a reference chain that never ends keeps it in the loop
Stringified(r) ==
    IF r.ok
    THEN /\ pc' = "returned"
         /\ ret' = Str(r.text)
         /\ cachedColor' = r.cachedColor
         /\ cachedPlain' = r.cachedPlain
         /\ UNCHANGED err
    ELSE /\ pc' = IF r.err.kind = "Diverges" THEN "hangs" ELSE "threw"
         /\ err' = r.err
         /\ UNCHANGED <<ret, cachedColor, cachedPlain>>

\* user code calls toString() or valueOf() on the RsString
CallToString(e) ==
    /\ ~Running
    /\ entry' = e
    /\ Stringified(toString(__debugColors, cachedColor, cachedPlain, strings, params))
    /\ UNCHANGED <<params, out, __debugColors, stream>>
    /\ UNCHANGED rsVars
    /\ UNCHANGED formatVars

\* if (newline) string = string + '\n'
WithNewline(text, newline) == IF newline THEN text \o <<"\n">> ELSE text

\* printToStream on an RsString after if (colored) string.__debugColors =
\* true: toString, then the flag is put back and the text written; an error
\* of toString leaves printToStream from line 16
Printed(r, newline, flag) ==
    IF r.ok
    THEN /\ __debugColors' = FALSE
         /\ stream' = Str(WithNewline(r.text, newline))
         /\ pc' = "returned"
         /\ ret' = Undefined
         /\ cachedColor' = r.cachedColor
         /\ cachedPlain' = r.cachedPlain
         /\ UNCHANGED err
    ELSE /\ __debugColors' = flag
         /\ pc' = IF r.err.kind = "Diverges" THEN "hangs" ELSE "threw"
         /\ err' = r.err
         /\ UNCHANGED <<ret, stream, cachedColor, cachedPlain>>

\* printToStream(stream, string, newline, colored), string the RsString or,
\* for the other branch, the primitive string strings[0]
PrintToStream(isRsString, newline, colored) ==
    /\ ~Running
    /\ entry' = "printToStream"
    /\ IF isRsString
       THEN Printed(toString(colored \/ __debugColors, cachedColor, cachedPlain, strings,
                             params),
                    newline, colored \/ __debugColors)
       ELSE /\ stream' = Str(WithNewline(strings[1], newline))
            /\ pc' = "returned"
            /\ ret' = Undefined
            /\ UNCHANGED <<err, __debugColors, cachedColor, cachedPlain>>
    /\ UNCHANGED <<params, out>>
    /\ UNCHANGED rsVars
    /\ UNCHANGED formatVars

PrintNext ==
    \/ \E e \in {"toString", "valueOf"} : CallToString(e)
    \/ \E isRsString \in BOOLEAN, newline \in BOOLEAN, colored \in BOOLEAN :
          PrintToStream(isRsString, newline, colored)

\* the templates of the RsStrings printed: one slot with text, a specifier
\* or a debug specifier after it, and two slots holding values and references
PrintSegments ==
    {<<" ", "z">>, <<":", "?">>, <<":", "#", "?">>, <<":", "*", "^", "7", "?">>,
     <<":", "x", ":", "z">>, <<":", "x", "z">>}

PrintValues == {IntNum(15)} \cup {Ref(IntNum(j)) : j \in 0..2}

PrintTemplate ==
    \/ \E seg \in PrintSegments, v \in PlainValues :
          strings = <<<<"a">>, seg>> /\ params = <<v>>
    \/ \E a \in PrintValues, b \in PrintValues :
          strings = <<<<>>, <<":", "?">>, <<>>>> /\ params = <<a, b>>

PrintInit ==
    /\ PrintTemplate
    /\ str = <<>>
    /\ Idle

\* an RsString made by rs`...` and then used by user code and the print
\* functions
PrintSpec == PrintInit /\ [][PrintNext]_vars

\* ----------------------------------------------------------------- claims
Finished == pc \in {"returned", "threw"}

\* what the render came to: the string returned or the error thrown
Outcome == IF pc = "returned" THEN Returned(Join(out)) ELSE Thrown(err.kind, err.param, err.char)

\* String(v), the conversion a plain template literal applies
PlainConversion(v) ==
    CASE v.t = "null" -> <<"n", "u", "l", "l">>
      [] v.t = "undefined" -> <<"u", "n", "d", "e", "f", "i", "n", "e", "d">>
      [] OTHER -> ToStringR(v, 10)

Primitive(v) == v.t \in {"number", "bigint", "string", "boolean", "null", "undefined"}

\* C1: a reference chain that comes back to a slot index it has already read
\* ends with an error (ReferenceCycle, or SelfReference for the originating
\* slot) instead of going round again.
C1_CycleRaisesError ==
    [][(/\ pc = "slot"
        /\ RefTest(param) = "ref"
        /\ IsInteger(param.n)
        /\ IntOf(param.n) \in visited)
       => (pc' = "threw" /\ err'.kind \in {"ReferenceCycle", "SelfReference"})]_vars

\* C2: a specifier that is only a sign flag and ends the template renders the
\* value with that flag: '+' gives a leading plus, '-' a leading space, on a
\* non-negative integer; no error is raised.
C2_TrailingSignRenders ==
    (/\ Finished
     /\ entry = "rs"
     /\ Len(params) = 1
     /\ strings[2] \in {<<":", "+">>, <<":", "-">>}
     /\ IsInteger(params[1])
     /\ ~params[1].neg)
    => (/\ pc = "returned"
        /\ ret = Str(strings[1]
                     \o (IF strings[2][2] = "+" THEN <<"+">> ELSE <<" ">>)
                     \o NumberToString(params[1], 10)))

\* C3: rs.raw returns a primitive string, the plain rendering
\* buildString(strings, params, false) of the template.
C3_RawIsPlainRender ==
    (pc = "returned" /\ entry = "raw")
    => (/\ buildString(strings, params, FALSE).ok
        /\ ret = Str(buildString(strings, params, FALSE).text))

\* C4: a primitive value in a slot whose following segment carries no
\* specifier renders as its plain string conversion followed by the segment;
\* no error is raised.
C4_PrimitiveRendersPlain ==
    (/\ Finished
     /\ entry = "rs"
     /\ Len(params) = 1
     /\ At(strings[2], 0) # ":"
     /\ Primitive(params[1]))
    => (/\ pc = "returned"
        /\ ret = Str(strings[1] \o PlainConversion(params[1]) \o strings[2]))

\* the non-reference value a chain of references to existing slots ends at,
\* or none where the chain leaves the slots or does not end within fuel hops
NoValue == [t |-> "none"]

RECURSIVE ChainEnd(_, _, _)
ChainEnd(ps, v, fuel) ==
    IF v.t # "ref" THEN v
    ELSE IF fuel = 0 \/ ~IsInteger(v.n) THEN NoValue
    ELSE IF IntOf(v.n) < 0 \/ IntOf(v.n) >= Len(ps) THEN NoValue
    ELSE ChainEnd(ps, ps[IntOf(v.n) + 1], fuel - 1)

\* slot s (1-based) holds a reference whose chain ends at a value
EndsAtValue(s) ==
    params[s].t = "ref" /\ ChainEnd(params, params[s], Len(params)) # NoValue

\* the same template with slot s holding the value its chain ends at
Direct(s) == [params EXCEPT ![s] = ChainEnd(params, params[s], Len(params))]

\* slot s was taken, or asked for, as a deferred width or precision
Deferred(s) ==
    \/ "width" \in {roles[s][k] : k \in 1..Len(roles[s])}
    \/ "precision" \in {roles[s][k] : k \in 1..Len(roles[s])}
    \/ pc = "threw" /\ err.kind \in {"InvalidWidth", "InvalidPrecision"} /\ s = err.param + 2

\* C5 as stated: every slot holding a reference whose chain ends at a value v
\* renders as the same template with v in that slot.
C5_ReferenceAsDirect_Original ==
    (Finished /\ entry = "rs")
    => \A s \in 1..Len(params) :
          EndsAtValue(s) => Outcome = buildString(strings, Direct(s), debugColors)

\* C5 (amended): a slot holding a reference whose chain ends at a value v, and
\* which is not taken as another slot's deferred width or precision, renders as
\* the same template with v in that slot.
C5_ReferenceAsDirect ==
    (Finished /\ entry = "rs")
    => \A s \in 1..Len(params) :
          (EndsAtValue(s) /\ ~Deferred(s))
          => Outcome = buildString(strings, Direct(s), debugColors)

\* a chain of two references is rendered under a specifier
C5_Witness ==
    /\ pc = "returned"
    /\ entry = "rs"
    /\ \E s \in 1..Len(params) :
          /\ EndsAtValue(s)
          /\ roles[s] = <<"value">>
          /\ params[IntOf(params[s].n) + 1].t = "ref"
          /\ At(strings[s + 1], 0) = ":"
          /\ IsNumeric(TypeOf(ChainEnd(params, params[s], Len(params))))

\* an integer index of an existing slot
ValidIndex(n) == IsInteger(n) /\ IntOf(n) >= 0 /\ IntOf(n) < Len(params)

\* C6: following a back-reference to index j from slot i - 1 fails with
\* InvalidReference when j is no integer in [0, slotCount) and with
\* SelfReference when j is the slot itself.
C6_BadReferenceRaises ==
    [][(pc = "slot" /\ RefTest(param) = "ref")
       => (IF ~ValidIndex(param.n)
           THEN pc' = "threw" /\ err'.kind = "InvalidReference"
           ELSE IntOf(param.n) = i - 1
                => (pc' = "threw" /\ err'.kind = "SelfReference"))]_vars

\* the segment after the slot is a specifier made of flags only, so that the
\* width is looked for at its end
FlagsOnly(string) ==
    /\ At(string, 0) = ":"
    /\ At(string, 1) # ":"
    /\ ParseFlags(string).idx = Len(string)

\* the template in which the width w taken from slot i + 1 is written as
\* inline digits instead: the slot is gone and its trailing segment follows
\* the digits
InlineStrings ==
    SubSeq(strings, 1, i)
    \o <<strings[i + 1] \o IntRadix(IntOf(params[i + 1]), 10) \o strings[i + 2]>>
    \o SubSeq(strings, i + 3, Len(strings))

InlineParams == SubSeq(params, 1, i) \o SubSeq(params, i + 2, Len(params))

\* writing the width inline reads the same: it has digits that are not taken
\* for the zero flag, and no digit or alignment character of the trailing
\* segment runs into them
InlineReadsSame ==
    /\ IntOf(params[i + 1]) >= 1
    /\ ~is_digit(At(strings[i + 2], 0))
    /\ Len(strings[i + 1]) > 1 \/ At(strings[i + 2], 0) \notin Aligns

\* the step of the loop from a slot whose specifier ends at the width, the
\* next slot holding an integer
DeferredWidthStep ==
    /\ pc = "slot"
    /\ RefTest(param) = "value"
    /\ FlagsOnly(strings[i + 1])
    /\ IsInteger(ParamAt(params, i))

\* the step agrees with formatting the slot under the inline template
SameAsInline(inl) ==
    IF inl.ok
    THEN /\ pc' # "threw"
         /\ out' = Append(out, inl.text)
         /\ i' = inl.i + 2
    ELSE pc' = "threw" /\ err'.kind = inl.err.kind

\* C7: a specifier that ends its segment without width digits, before a slot
\* holding an integer w, takes that slot as the width w: the slot is not
\* rendered as a value, its trailing segment is parsed on as the rest of the
\* specifier, the loop resumes after it, and at the end every slot has been
\* consumed exactly once.
C7_DeferredWidthConsumed ==
    [][/\ DeferredWidthStep
          => /\ pc' # "threw"
                => /\ roles'[i + 1] = <<"width">>
                   /\ last'.format.width = params[i + 1]
                   /\ i' >= i + 2
             /\ InlineReadsSame
                => SameAsInline(FormatSlot(InlineStrings, InlineParams, i, param,
                                           debugColors))
       /\ pc' = "returned" => \A k \in 1..Len(params) : Len(roles'[k]) = 1]_vars

\* a deferred width and a deferred precision after it have been consumed
C7_Witness ==
    /\ pc = "returned"
    /\ Len(params) = 3
    /\ roles = <<<<"value">>, <<"width">>, <<"precision">>>>
    /\ params[2] = IntNum(5)
    /\ last.format.width = IntNum(5)
    /\ last.format.align = "^"

\* C8: type e renders a number or bigint in scientific notation with a
\* lowercase exponent marker and type E with an uppercase one, without an
\* error; any other value renders as its string form.
C8_ScientificCompletes ==
    (/\ Finished
     /\ entry = "rs"
     /\ Len(params) = 1
     /\ strings[2] \in {<<":", "e">>, <<":", "E">>}
     /\ CanToString(params[1]))
    => (/\ pc = "returned"
        /\ ret = Str(strings[1]
                     \o (IF ~IsNumeric(TypeOf(params[1])) THEN ToStringR(params[1], 10)
                         ELSE IF strings[2][2] = "e" THEN toLowerCase(SciString(params[1]))
                         ELSE SciString(params[1]))))

\* the last slot formatted held a number or bigint under a specifier with the
\* zero flag and an integer width
ZeroPadCase ==
    /\ last.formatted
    /\ IsNumeric(TypeOf(last.param))
    /\ last.format.pad_zeroes
    /\ IsInteger(last.format.width)

\* the value's text under the same type and precision with no sign forced,
\* no prefix and no padding
Bare(p, f) ==
    formatParam(p, [f EXCEPT !.pad_zeroes = FALSE, !.width = IntNum(0),
                             !.force_sign = "", !.pretty = FALSE], debugColors).text

SignOf(text, f) ==
    CASE At(text, 0) = "-" -> <<"-">>
      [] f.force_sign = "+" -> <<"+">>
      [] f.force_sign = "-" -> <<" ">>
      [] OTHER -> <<>>

PrefixOf(f) ==
    CASE f.pretty /\ f.type = "o" -> <<"0", "o">>
      [] f.pretty /\ f.type \in {"x", "X"} -> <<"0", "x">>
      [] f.pretty /\ f.type = "b" -> <<"0", "b">>
      [] OTHER -> <<>>

DigitsOf(text) == IF At(text, 0) = "-" THEN Tail(text) ELSE text

Max(a, b) == IF a >= b THEN a ELSE b

\* sign ++ prefix ++ k zeros ++ digits, k = max(0, width - unpadded length)
ZeroPadded(p, f) ==
    LET text == Bare(p, f)
        head == SignOf(text, f) \o PrefixOf(f)
        k == Max(0, IntOf(f.width) - Len(head) - Len(DigitsOf(text)))
    IN  head \o Repeat("0", k) \o DigitsOf(text)

UnpaddedLength(p, f) ==
    Len(SignOf(Bare(p, f), f)) + Len(PrefixOf(f)) + Len(DigitsOf(Bare(p, f)))

PrecisionCase ==
    /\ last.formatted
    /\ TypeOf(last.param) = "number"
    /\ IsInteger(last.format.precision)
    /\ IntOf(last.format.precision) >= 0
    /\ last.format.width = IntNum(0)

\* the same value under the same specifier without the precision
Unshaped(p, f) == formatParam(p, [f EXCEPT !.precision = IntNum(-1)], debugColors).text

IntegerPart(text) ==
    IF IndexOfDot(text, 0) = -1 THEN text ELSE Substring(text, 0, IndexOfDot(text, 0))

FractionPart(text) ==
    IF IndexOfDot(text, 0) = -1 THEN <<>> ELSE SubstringFrom(text, IndexOfDot(text, 0) + 1)

\* the fraction cut to n digits, or filled up to n digits with zeros
ExactDigits(fraction, n) ==
    [k \in 1..n |-> IF k <= Len(fraction) THEN fraction[k] ELSE "0"]

WithPrecisionDigits(text, n) ==
    IF n = 0 THEN IntegerPart(text)
    ELSE IntegerPart(text) \o <<".">> \o ExactDigits(FractionPart(text), n)

\* the decimal text of a number's sign, integer part and first n fraction
\* digits, from the value itself
DecimalTruncated(v, n) ==
    (IF v.neg THEN <<"-">> ELSE <<>>) \o IntRadix(v.ip, 10)
    \o (IF n = 0 THEN <<>> ELSE <<".">> \o ExactDigits(v.fp, n))

PrecisionShapes ==
    /\ last.text = WithPrecisionDigits(Unshaped(last.param, last.format),
                                       IntOf(last.format.precision))
    /\ (last.format.type = "" /\ last.format.force_sign = "" /\ ~last.param.nan)
       => last.text = DecimalTruncated(last.param, IntOf(last.format.precision))

\* C10 as stated: every number formatted with a precision p has its point and
\* fraction dropped for p = 0 and its fraction cut or zero-filled to exactly p
\* digits for p > 0, the integer part and sign unchanged.
C10_Precision_Original == PrecisionCase => PrecisionShapes

\* C10 (amended): a number formatted with a precision p under a type other
\* than n, N and ? has its point and fraction dropped for p = 0 and its
\* fraction cut (never rounded) or zero-filled to exactly p digits for p > 0,
\* the integer part and sign unchanged.
C10_Precision ==
    (PrecisionCase /\ last.format.type \notin {"n", "N", "?"}) => PrecisionShapes

\* 1.23456789 under '.3' has been rendered as 1.234
C10_Witness ==
    /\ PrecisionCase
    /\ pc = "returned"
    /\ last.param = Num(FALSE, 1, <<"2", "3", "4", "5", "6", "7", "8", "9">>)
    /\ last.format.precision = IntNum(3)
    /\ last.format.type = ""
    /\ last.text = <<"1", ".", "2", "3", "4">>

\* the last slot formatted held an integer, number or bigint, under an
\* ordinal type with no sign forced and no width
OrdinalCase ==
    /\ last.formatted
    /\ last.format.type \in {"n", "N"}
    /\ last.param.t = "bigint" \/ IsInteger(last.param)
    /\ last.format.force_sign = ""
    /\ last.format.width = IntNum(0)

\* the suffix of the integer a >= 0, from its value
SuffixOf(a) ==
    IF a % 100 \in {11, 12, 13} THEN <<"t", "h">>
    ELSE CASE a % 10 = 1 -> <<"s", "t">>
           [] a % 10 = 2 -> <<"n", "d">>
           [] a % 10 = 3 -> <<"r", "d">>
           [] OTHER -> <<"t", "h">>

OrdinalText(v, type) ==
    (IF v.neg THEN <<"-">> ELSE <<>>) \o IntRadix(v.ip, 10)
    \o (IF type = "N" THEN toUpperCase(SuffixOf(v.ip)) ELSE SuffixOf(v.ip))

\* C11: an integer under type n or N renders as its decimal digits followed
\* by th when the last two digits are 11, 12 or 13, otherwise st, nd, rd for
\* a last digit 1, 2, 3 and th for any other; lowercase for n, uppercase for N.
C11_OrdinalSuffix ==
    OrdinalCase => last.text = OrdinalText(last.param, last.format.type)

\* 111 has been rendered as 111th, 21 can be told from it by its last two digits
C11_Witness ==
    /\ OrdinalCase
    /\ pc = "returned"
    /\ last.param = IntNum(111)
    /\ last.format.type = "n"
    /\ last.text = <<"1", "1", "1", "t", "h">>

\* the last slot formatted held a number or bigint under a specifier with no
\* width
SignCase ==
    /\ last.formatted
    /\ IsNumeric(TypeOf(last.param))
    /\ last.format.width = IntNum(0)

\* what the sign flag puts before a value that is not negative
FlagSign(f) ==
    CASE f.force_sign = "+" -> <<"+">>
      [] f.force_sign = "-" -> <<" ">>
      [] OTHER -> <<>>

\* the same value under the same specifier without the sign flag
Unsigned(p, f) == formatParam(p, [f EXCEPT !.force_sign = ""], debugColors).text

\* Math.round(v) is zero
RoundsToZero(v) ==
    /\ v.t = "number"
    /\ v.ip = 0
    /\ v.fp = <<>> \/ DigitValue(v.fp[1]) < 5 \/ v.fp = <<"5">>

\* the text carries one leading '-' and nothing else for a negative, and the
\* flag's sign before the unflagged text otherwise
SignPolicy(negative) ==
    IF negative
    THEN /\ last.text = Unsigned(last.param, last.format)
         /\ At(last.text, 0) = "-"
         /\ At(last.text, 1) # "-"
    ELSE /\ last.text = FlagSign(last.format) \o Unsigned(last.param, last.format)
         /\ At(Unsigned(last.param, last.format), 0) # "-"

\* C12 as stated: every number or bigint gets '+' or a space before it by the
\* sign flag when it is not negative, and exactly one leading '-' under every
\* flag when it is negative.
C12_SignPolicy_Original == SignCase => SignPolicy(last.param.neg)

\* C12 (amended): under a type other than ?, a number or bigint whose
\* converted text is not negative gets '+' before it with flag '+', a single
\* space with flag '-' and nothing without a flag; one whose converted text is
\* negative (every negative value, but for an ordinal that rounds to zero)
\* renders with exactly one leading '-' under all three modes.
C12_SignPolicy ==
    (SignCase /\ last.format.type # "?")
    => SignPolicy(/\ last.param.neg
                  /\ ~(last.format.type \in {"n", "N"} /\ RoundsToZero(last.param)))

\* 1 under '+' has been rendered as +1
C12_Witness ==
    /\ SignCase
    /\ pc = "returned"
    /\ last.param = IntNum(1)
    /\ last.format.force_sign = "+"
    /\ last.text = <<"+", "1">>

\* the step of the loop from a slot whose segment begins with '::', the
\* value having a string form
EscapeStep ==
    /\ pc = "slot"
    /\ RefTest(param) = "value"
    /\ At(strings[i + 1], 0) = ":"
    /\ At(strings[i + 1], 1) = ":"
    /\ param.t # "undefined"

Unfilled(p, f) == formatParam(p, [f EXCEPT !.width = IntNum(0)], debugColors).text

PlainUnfilled(p, f) == formatParam(p, [f EXCEPT !.width = IntNum(0)], FALSE).text

\* width - length for an integer width
Deficit(p, f) == IntOf(f.width) - Len(PlainUnfilled(p, f))

\* the last slot formatted held a string centred in an integer width larger
\* than its length
CenterCase ==
    /\ last.formatted
    /\ last.param.t = "string"
    /\ last.format.align = "^"
    /\ IsInteger(last.format.width)
    /\ Deficit(last.param, last.format) >= 1

Unindexed(m) ==
    m.found /\ m.whole = "insert" /\ m.param_number \in {Undefined, Group(<<>>)}

\* how many insertion points with no parameter number s has from index k up
\* to index to
RECURSIVE UnindexedBetween(_, _, _)
UnindexedBetween(s, k, to) ==
    IF ~NextMatch(s, k).found \/ NextMatch(s, k).start >= to THEN 0
    ELSE (IF Unindexed(NextMatch(s, k)) THEN 1 ELSE 0)
         + UnindexedBetween(s, NextMatch(s, k).end, to)

\* the text the replacer gives for the same insertion point numbered k
Numbered(m, k) ==
    replacer(params, 0, [m EXCEPT !.param_number = Group(IntRadix(k, 10))]).text

\* C15: in format(str, ...params) the k-th insertion point without a number
\* (from 0) renders params[k], whatever numbered insertion points stand
\* between them.
C15_UnindexedCursor ==
    [][(/\ pc = "replace"
        /\ Unindexed(NextMatch(str, lastIndex))
        /\ ParamAt(params, UnindexedBetween(str, 0, lastIndex)) # Undefined)
       => /\ pc' # "threw"
          /\ out' = out \o <<Substring(str, lastIndex, NextMatch(str, lastIndex).start),
                             Numbered(NextMatch(str, lastIndex),
                                      UnindexedBetween(str, 0, lastIndex))>>]_vars

\* the text after the 'm' that ends a styling code
RECURSIVE AfterCode(_)
AfterCode(s) ==
    IF s = <<>> THEN <<>> ELSE IF Head(s) = "m" THEN Tail(s) ELSE AfterCode(Tail(s))

\* the text with its styling codes (ESC [ ... m) removed
RECURSIVE StripStyling(_)
StripStyling(s) ==
    IF s = <<>> THEN <<>>
    ELSE IF Head(s) = "ESC" THEN StripStyling(AfterCode(s))
    ELSE <<Head(s)>> \o StripStyling(Tail(s))

StrippedOutcome ==
    IF pc = "returned" THEN Returned(StripStyling(Join(out))) ELSE Outcome

\* C16: styling codes never count toward the width: the coloured rendering
\* of a template, its styling codes removed, is the plain rendering of the
\* same template and values.
C16_StylingOutsideWidth ==
    (Finished /\ entry = "rs" /\ debugColors)
    => StrippedOutcome = buildString(strings, params, FALSE)

\* a string has been rendered coloured under '?' in a width larger than its
\* plain length
C16_Witness ==
    /\ pc = "returned"
    /\ entry = "rs"
    /\ debugColors
    /\ last.formatted
    /\ last.format.type = "?"
    /\ last.param = Str(<<"a", "b">>)
    /\ last.format.width = IntNum(WidthDigit)
    /\ Len(last.text) > WidthDigit
    /\ Len(StripStyling(last.text)) = WidthDigit

\* the last slot formatted held a string, a number or a bigint under an
\* integer width, with no zero padding in effect
FillCase ==
    /\ last.formatted
    /\ last.param.t \in {"string", "number", "bigint"}
    /\ IsInteger(last.format.width)
    /\ ~(/\ last.format.pad_zeroes
         /\ IsNumeric(TypeOf(last.param))
         /\ last.format.type \notin {"?", "n", "N"})

\* width - L, L the true length of the post-processed text
Missing(p, f) == IntOf(f.width) - Len(PlainUnfilled(p, f))

\* C17: without zero padding the text formatParam returns has true length
\* max(width, L), L the true length of the post-processed text: right align
\* puts width - L fill characters on the left, left align puts them on the
\* right, and a text at least as long as the width is returned unchanged.
C17_FillToWidth ==
    FillCase
    => /\ Len(StripStyling(last.text))
            = Max(IntOf(last.format.width), Len(PlainUnfilled(last.param, last.format)))
       /\ (Missing(last.param, last.format) > 0 /\ last.format.align = ">")
          => last.text = Repeat(last.format.fill, Missing(last.param, last.format))
                         \o Unfilled(last.param, last.format)
       /\ (Missing(last.param, last.format) > 0 /\ last.format.align = "<")
          => last.text = Unfilled(last.param, last.format)
                         \o Repeat(last.format.fill, Missing(last.param, last.format))
       /\ Missing(last.param, last.format) <= 0
          => last.text = Unfilled(last.param, last.format)

\* the width parsed for the slot at hand
WidthParsed == ParseWidth(strings, params, i, strings[i + 1], ParseFlags(strings[i + 1]).idx)

\* the specifier of the slot at hand takes its precision from the next slot:
\* a '.' with no digit after it follows the width
DeferredPrecisionStep ==
    /\ pc = "slot"
    /\ RefTest(param) = "value"
    /\ At(strings[i + 1], 0) = ":"
    /\ At(strings[i + 1], 1) # ":"
    /\ WidthParsed.ok
    /\ At(WidthParsed.string, WidthParsed.idx) = "."
    /\ ~is_digit(At(WidthParsed.string, WidthParsed.idx + 1))

\* C18: a deferred width or a deferred precision is accepted only from a
\* slot that holds an integer: for anything else (a string, an object, a
\* reference token, undefined, a fractional number, NaN) the step throws
\* InvalidWidth respectively InvalidPrecision and nothing is returned.
C18_DeferredMustBeInteger ==
    [][/\ (/\ pc = "slot"
           /\ RefTest(param) = "value"
           /\ FlagsOnly(strings[i + 1])
           /\ ~IsInteger(ParamAt(params, i)))
          => (pc' = "threw" /\ err'.kind = "InvalidWidth")
       /\ (/\ DeferredPrecisionStep
           /\ ~IsInteger(ParamAt(params, WidthParsed.i)))
          => (pc' = "threw" /\ err'.kind = "InvalidPrecision")]_vars

\* the precision parsed for the slot at hand, and where its type code ends
PrecisionParsed ==
    ParsePrecision(strings, params, WidthParsed.i, WidthParsed.string, WidthParsed.idx)

TypeEnd ==
    IF At(PrecisionParsed.string, PrecisionParsed.idx) \in FormatTypes
    THEN PrecisionParsed.idx + 1
    ELSE PrecisionParsed.idx

\* the character after the optional type code, "undefined" at the end of
\* the segment
Terminator == At(PrecisionParsed.string, TypeEnd)

\* the slot at hand has a specifier whose width and precision have parsed
TerminatorStep ==
    /\ pc = "slot"
    /\ RefTest(param) = "value"
    /\ At(strings[i + 1], 0) = ":"
    /\ At(strings[i + 1], 1) # ":"
    /\ WidthParsed.ok
    /\ PrecisionParsed.ok

Malformed == pc = "threw" /\ err.kind = "MalformedSpecifier"

\* C19 as stated: after the optional type code parsing succeeds exactly when
\* the next character is ':', a space, a tab or a line feed, or the segment
\* ends there; any other character raises MalformedSpecifier.
C19_Terminator_Original ==
    [][TerminatorStep
       => (Terminator \in {":", " ", "\t", "\n", "undefined"} <=> ~Malformed')]_vars

\* C19: after the optional type code parsing succeeds exactly when the next
\* character is ':' or a space, or the segment ends there; any other
\* character, a tab or a line feed included, raises MalformedSpecifier with
\* the character's offset and nothing is pushed or returned.
C19_Terminator ==
    [][TerminatorStep
       => /\ Terminator \in {":", " ", "undefined"} <=> ~Malformed'
          /\ Malformed' => (err'.char = TypeEnd /\ out' = out /\ ret' = ret)]_vars

\* a specifier ended by a space has been parsed and the value rendered, the
\* space kept in the output
C19_Witness ==
    /\ pc = "returned"
    /\ strings = <<<<"a">>, <<":", "x", " ", "z">>>>
    /\ params = <<IntNum(15)>>
    /\ out = <<<<"a">>, <<"f", " ", "z">>>>

SpecifierErrors == {"InvalidWidth", "InvalidPrecision", "MalformedSpecifier"}

\* C20: an error raised while the specifier of a slot is parsed (invalid
\* deferred width, invalid deferred precision, malformed end) reports the
\* index of the slot whose value is being formatted, also after a deferred
\* width slot has been consumed for that specifier.
C20_ErrorNamesValueSlot ==
    [][(/\ pc = "slot"
        /\ RefTest(param) = "value"
        /\ pc' = "threw"
        /\ err'.kind \in SpecifierErrors)
       => err'.param = i - 1]_vars

\* the same value under the same specifier with another fill character
FilledWith(p, f, c) == formatParam(p, [f EXCEPT !.fill = c], debugColors).text

\* fill/align added nothing to the text: it is the same whatever the fill
\* character and the alignment asked for
NoFillAdded(p, f, text) ==
    /\ text = FilledWith(p, [f EXCEPT !.align = "<"], "!")
    /\ text = FilledWith(p, [f EXCEPT !.align = ">"], "~")

\* C21 as stated: when the parsed specifier has the zero flag, fill/align is
\* not applied, for every kind of value and every type code.
C21_ZeroPadNoAlignment_Original ==
    (last.formatted /\ last.format.pad_zeroes)
    => NoFillAdded(last.param, last.format, last.text)

\* C21: when the parsed specifier has the zero flag and the value is a
\* number or bigint under a type other than ?, n and N, fill/align is not
\* applied: no fill character is added on either side, whatever fill and
\* alignment were parsed.
C21_ZeroPadNoAlignment ==
    (/\ last.formatted
     /\ last.format.pad_zeroes
     /\ IsNumeric(TypeOf(last.param))
     /\ last.format.type \notin {"?", "n", "N"})
    => NoFillAdded(last.param, last.format, last.text)

\* 15 under '*^07' has been rendered with zeroes and no '*'
C21_Witness ==
    /\ pc = "returned"
    /\ last.formatted
    /\ last.param = IntNum(15)
    /\ last.format.pad_zeroes
    /\ last.format.fill = "*"
    /\ last.format.align = "^"
    /\ last.format.width = IntNum(WidthDigit)
    /\ last.format.type = ""
    /\ last.text = <<"0", "0", "0", "0", "0", "1", "5">>

\* the same value under the same specifier without sign, zero flag and
\* precision, and without the zero flag and precision only
NoNumericFlags(p, f) ==
    formatParam(p, [f EXCEPT !.force_sign = "", !.pad_zeroes = FALSE,
                             !.precision = IntNum(-1)], debugColors).text

NoZeroNoPrecision(p, f) ==
    formatParam(p, [f EXCEPT !.pad_zeroes = FALSE, !.precision = IntNum(-1)],
                debugColors).text

\* under n and N the zero flag and the precision change nothing
OrdinalInert ==
    (last.formatted /\ last.format.type \in {"n", "N"})
    => last.text = NoZeroNoPrecision(last.param, last.format)

\* C22 as stated: under ? the sign, the zero flag, the '#' flag and the
\* precision have no effect, and under n and N the zero flag and the
\* precision have none: the output is that of the specifier without them.
C22_TypeForcesInert_Original ==
    /\ (last.formatted /\ last.format.type = "?")
       => last.text = NoNumericFlags(last.param, [last.format EXCEPT !.pretty = FALSE])
    /\ OrdinalInert

\* C22: under ? the sign, the zero flag and the precision have no effect on
\* any value and no radix prefix is added, '#' only choosing the multi-line
\* layout of the inspection; under n and N the zero flag and the precision
\* have no effect. The output is that of the specifier without those flags.
C22_TypeForcesInert ==
    /\ (last.formatted /\ last.format.type = "?")
       => /\ last.text = NoNumericFlags(last.param, last.format)
          /\ last.param.t \in {"number", "bigint", "string"}
             => last.text = NoNumericFlags(last.param,
                                           [last.format EXCEPT !.pretty = FALSE])
    /\ OrdinalInert

\* 15 under '+07.3?' has been rendered as 15 filled to the width with spaces
C22_Witness ==
    /\ pc = "returned"
    /\ last.formatted
    /\ last.param = IntNum(15)
    /\ last.format.type = "?"
    /\ last.format.force_sign = "+"
    /\ last.format.pad_zeroes
    /\ last.format.precision = IntNum(3)
    /\ last.format.width = IntNum(WidthDigit)
    /\ StripStyling(last.text) = <<" ", " ", " ", " ", " ", "1", "5">>

\* the text the type conversion gives the value, before any post-processing
ConvertedText(p, f) == ConvertType(p, f, debugColors).text

\* the converted text filled to an integer width: width - length fill
\* characters on the side(s) the alignment names
FilledToWidth(text, f) ==
    LET d == IntOf(f.width) - Len(StripStyling(text))
    IN  IF d <= 0 THEN text
        ELSE CASE f.align = ">" -> Repeat(f.fill, d) \o text
               [] f.align = "<" -> text \o Repeat(f.fill, d)
               [] OTHER -> Repeat(f.fill, d \div 2) \o text \o Repeat(f.fill, d - d \div 2)

\* the specifier without sign, zero flag and precision, and without '#'
\* where it asks for a radix prefix (under ? it chooses the layout of the
\* conversion)
Flagless(f) ==
    [f EXCEPT !.force_sign = "", !.pad_zeroes = FALSE, !.precision = IntNum(-1),
              !.pretty = (f.pretty /\ f.type = "?")]

\* the last slot formatted held a value that is no number and no bigint
NonNumericCase ==
    /\ last.formatted
    /\ ~IsNumeric(TypeOf(last.param))

\* C23: for a value that is no number and no bigint (string, boolean,
\* object) the sign flag, the zero flag, the radix prefix of '#' and the
\* precision have no effect: formatParam returns the converted text, changed
\* only by fill/align to the width.
C23_NonNumericFlagsInert ==
    NonNumericCase
    => /\ last.text = formatParam(last.param, Flagless(last.format), debugColors).text
       /\ IsInteger(last.format.width)
          => last.text = FilledToWidth(ConvertedText(last.param, last.format), last.format)

\* 'ab' under '*^+#07.3x' has been rendered as 'ab' centred among '*'
C23_Witness ==
    /\ pc = "returned"
    /\ NonNumericCase
    /\ last.param = Str(<<"a", "b">>)
    /\ last.format.force_sign = "+"
    /\ last.format.pretty
    /\ last.format.pad_zeroes
    /\ last.format.precision = IntNum(3)
    /\ last.format.type = "x"
    /\ last.text = <<"*", "*", "a", "b", "*", "*", "*">>

\* the last slot formatted held a bigint under a precision p > 0 and a type
\* that takes a precision
BigintPrecisionCase ==
    /\ last.formatted
    /\ last.param.t = "bigint"
    /\ IsInteger(last.format.precision)
    /\ IntOf(last.format.precision) > 0
    /\ last.format.type \notin {"?", "n", "N", "e", "E"}

\* the number equal to a bigint
NumberOf(b) == Num(b.neg, b.ip, <<>>)

TheMatch == NextMatch(str, 0)

\* the specifier fields of formatParam that the groups of a match spell
CoreFormat(m) ==
    [fill |-> IF m.fill_character = Undefined THEN " "
              ELSE IF m.fill_character.s = <<>> THEN " " ELSE m.fill_character.s[1],
     align |-> IF m.align_direction = Undefined THEN ">" ELSE m.align_direction.s[1],
     force_sign |-> IF m.sign = Undefined THEN "" ELSE "+",
     pretty |-> m.pretty # Undefined,
     pad_zeroes |-> m.pad_zeroes # Undefined,
     width |-> IntNum(LegacyWidth(m)),
     precision |-> IF m.precision = Undefined THEN IntNum(-1)
                   ELSE IntNum(ParseNat(Tail(m.precision.s))),
     type |-> IF m.type = Undefined THEN "" ELSE m.type.s[1]]

\* format was called on '{:S}' and one string, number or bigint, S made of
\* fill/align, '+', '#', '0', width digits, '.' with digits and a type among
\* o, x, X, b or none
LegacySubsetCase ==
    /\ Finished
    /\ entry = "format"
    /\ Len(params) = 1
    /\ params[1].t \in {"string", "number", "bigint"}
    /\ Len(str) >= 3
    /\ str[1] = "{"
    /\ str[2] = ":"
    /\ TheMatch.found
    /\ TheMatch.end = Len(str)
    /\ TheMatch.precision # Undefined => Len(TheMatch.precision.s) > 1
    /\ TheMatch.type # Undefined => TheMatch.type.s[1] \in {"o", "x", "X", "b"}

\* formatParam on the same value and specifier fields
CoreRendering == formatParam(params[1], CoreFormat(TheMatch), FALSE)

\* C25: for a string, number or bigint and a specifier of the legacy
\* grammar, format('{:S}', v) returns the text formatParam returns for v
\* under the same specifier fields.
C25_LegacyEquivalent ==
    LegacySubsetCase
    => IF CoreRendering.ok
       THEN pc = "returned" /\ ret = Str(CoreRendering.text)
       ELSE pc = "threw"

\* a step of printToStream on the RsString that comes back to its caller,
\* by return or by throw
PrintExit ==
    /\ \E newline \in BOOLEAN, colored \in BOOLEAN : PrintToStream(TRUE, newline, colored)
    /\ pc' \in {"returned", "threw"}

\* C26: printToStream leaves the RsString's __debugColors flag false on
\* every exit path, coloured or not, whether the render returned or threw,
\* so a toString or valueOf of user code never renders with colours.
C26_FlagResetOnExit ==
    [][/\ PrintExit => ~__debugColors'
       /\ (\E e \in {"toString", "valueOf"} : CallToString(e)) => ~__debugColors]_vars

\* the cache a render may have filled: null, or the text buildString returns
CacheOf(colors) ==
    IF buildString(strings, params, colors).ok
    THEN {Null, Str(buildString(strings, params, colors).text)}
    ELSE {Null}

\* the cache the flag selects
Selected(flag, color, plain) == IF flag THEN color ELSE plain

\* C27: over any sequence of toString, valueOf and printToStream calls,
\* cachedPlain is null or buildString(strings, params, false) and
\* cachedColor is null or buildString(strings, params, true); a cache once
\* filled is never computed again, a render that throws leaves both as they
\* were, and toString returns the cache the flag in force selects, never the
\* other one.
C27_CachesPerMode ==
    [][/\ cachedPlain' \in CacheOf(FALSE)
       /\ cachedColor' \in CacheOf(TRUE)
       /\ cachedPlain # Null => cachedPlain' = cachedPlain
       /\ cachedColor # Null => cachedColor' = cachedColor
       /\ pc' = "threw" => (cachedPlain' = cachedPlain /\ cachedColor' = cachedColor)
       /\ ((\E e \in {"toString", "valueOf"} : CallToString(e)) /\ pc' = "returned")
          => ret' = Selected(__debugColors, cachedColor', cachedPlain')
       /\ \A newline \in BOOLEAN, colored \in BOOLEAN :
             (PrintToStream(TRUE, newline, colored) /\ pc' = "returned")
             => stream' = Str(WithNewline(Selected(colored \/ __debugColors, cachedColor',
                                                   cachedPlain').s,
                                          newline))]_vars

\* both caches are filled, with different texts, and toString has returned
\* the plain one
C27_Witness ==
    /\ pc = "returned"
    /\ entry = "toString"
    /\ cachedColor # Null
    /\ cachedPlain # Null
    /\ cachedColor # cachedPlain
    /\ ~__debugColors
    /\ ret = cachedPlain

=============================================================================
